---------------------------- MODULE Spec2Model ----------------------------
(***************************************************************************)
(* A model of the product-enrichment backend: the per-domain rate limiter  *)
(* (app/rate_limiter.py), the crawler fetch wrapper (app/crawlers/base.py),*)
(* the crawler manager's fan-out and the aggregation of crawl results      *)
(* (app/crawlers/manager.py), the product verifier (app/verification.py)   *)
(* and the enrichment service (app/service.py).                            *)
(*                                                                         *)
(* The module holds several specifications over one set of variables; each *)
(* specification drives one component and leaves the variables of the      *)
(* other components at their initial values:                               *)
(*   SpecThrottle  DomainRateLimiter.acquire/release under BaseCrawler.fetch*)
(*   SpecSearch    CrawlerManager.search_all and _gather_results           *)
(*   FairSearch    SpecSearch with the fairness of the event loop          *)
(*   SpecVerify    ProductVerifier.verify_match on a corpus of inputs      *)
(*   SpecAggregate aggregate_crawl_results on lists of crawl results       *)
(*   SpecPrices    aggregate_crawl_results from the sort on, on results    *)
(*                 that differ in price                                    *)
(*   SpecEnrich    EnrichmentService.enrich_product, request after request *)
(***************************************************************************)
EXTENDS Integers, Sequences, FiniteSets, TLC

VARIABLES
    \* ---- rate limiter and fetch (rate_limiter.py, crawlers/base.py)
    now,            \* wall clock, whole seconds (datetime.now())
    last_request,   \* domain -> None | Some(time): DomainRateLimiter.last_request
    sem_value,      \* domain -> free slots of DomainRateLimiter.semaphore
    fpc,            \* fetch task -> position inside BaseCrawler.fetch
    fdomain,        \* fetch task -> domain of the url being fetched
    wake_at,        \* fetch task -> time its asyncio.sleep(wait_time) is due
    prev_dispatch,  \* domain -> None | Some(time): the return of acquire()
                    \* before the one recorded in last_request (history)
    nfetch,         \* number of fetch() calls started so far
    \* ---- CrawlerManager.search_all (crawlers/manager.py)
    sclock,         \* seconds since search_all was called
    spc,            \* position inside search_all
    in_brand,       \* argument brand: None | Some(string)
    in_name,        \* argument product_name: None | Some(string)
    gstart,         \* sclock when the pending asyncio.wait_for was entered
    utasks,         \* the three coroutines gathered by _search_by_upc
    ntasks,         \* the two coroutines gathered by _search_by_name
    upc_results,    \* what _search_by_upc returned
    name_results,   \* what _search_by_name returned
    all_results,    \* search_all's local all_results
    unique_results, \* what search_all returned
    \* ---- ProductVerifier.verify_match (verification.py)
    vpc,            \* "idle" | "called" | "returned"
    vargs,          \* the arguments of the call
    vresult,        \* None | Some(VerificationResult)
    \* ---- aggregate_crawl_results (crawlers/manager.py)
    apc,            \* "idle" | "called" | "filtered" | "verified" | "returned"
    a_results,      \* argument results
    a_input,        \* the arguments input_upc, input_brand, input_name,
                    \* input_size, input_color
    a_valid,        \* local valid_results
    a_verified,     \* local verified_results: (result, verification) pairs
    a_record,       \* None | Some(the returned record)
    \* ---- EnrichmentService.enrich_product (service.py, image_client.py)
    epc,            \* position inside enrich_product
    e_input,        \* product_input
    e_db,           \* the enriched_products row of product_input.upc: None | Some(row)
    e_available,    \* image_client._is_available: None | Some(BOOLEAN)
    e_aggregated,   \* local aggregated (None before the aggregation)
    e_image_verification, \* local image_verification: None | Some(info)
    e_output,       \* None | Some(the returned ProductOutput)
    e_requests,     \* number of enrich_product calls made so far
    \* ---- one search of a source adapter (crawlers/*.py)
    cpc,            \* position inside the adapter's search
    c_call,         \* <<adapter, method>> of the call
    c_urls,         \* sephora: the product urls still to fetch
    c_results,      \* local results
    c_raised        \* None | Some(name of the exception that left the search)

throttleVars ==
    <<now, last_request, sem_value, fpc, fdomain, wake_at,
      prev_dispatch, nfetch>>

searchVars ==
    <<sclock, spc, in_brand, in_name, gstart, utasks, ntasks,
      upc_results, name_results, all_results, unique_results>>

verifyVars == <<vpc, vargs, vresult>>

aggregateVars == <<apc, a_results, a_input, a_valid, a_verified, a_record>>

enrichVars ==
    <<epc, e_input, e_db, e_available, e_aggregated, e_image_verification,
      e_output, e_requests>>

adapterVars == <<cpc, c_call, c_urls, c_results, c_raised>>

vars ==
    <<throttleVars, searchVars, verifyVars, aggregateVars, enrichVars, adapterVars>>

\* What the actions of one component leave unchanged.
otherThanThrottle ==
    <<searchVars, verifyVars, aggregateVars, enrichVars, adapterVars>>
otherThanSearch ==
    <<throttleVars, verifyVars, aggregateVars, enrichVars, adapterVars>>
otherThanVerify ==
    <<throttleVars, searchVars, aggregateVars, enrichVars, adapterVars>>
otherThanAggregate ==
    <<throttleVars, searchVars, verifyVars, enrichVars, adapterVars>>
otherThanEnrich ==
    <<throttleVars, searchVars, verifyVars, aggregateVars, adapterVars>>
otherThanAdapter ==
    <<throttleVars, searchVars, verifyVars, aggregateVars, enrichVars>>

(***************************************************************************)
(* Optional values.                                                        *)
(***************************************************************************)
None == <<>>
Some(x) == <<x>>
IsSome(o) == o # None
Val(o) == o[1]

Max2(a, b) == IF a >= b THEN a ELSE b
Min2(a, b) == IF a <= b THEN a ELSE b

\* The elements of a sequence.
Elems(seq) == {seq[k] : k \in DOMAIN seq}

(***************************************************************************)
(* Bounds of the throttle model.                                           *)
(***************************************************************************)
NumFetchTasks == 3
MaxFetches == 3
MaxTime == 5

FetchTasks == 1..NumFetchTasks

(***************************************************************************)
(* rate_limiter.py                                                         *)
(***************************************************************************)
\* RateLimitConfig defaults; requests_per_second is kept in tenths so that
\* 0.5 and 0.2 are integers.
DEFAULT_RPS_TENTHS == 5
DEFAULT_MAX_CONCURRENT == 2

\* GlobalRateLimiter.configs, keyed by the exact netloc string.
ConfiguredDomains == {"sephora.com", "ulta.com", "google.com"}
configs(d) ==
    CASE d = "sephora.com" -> [rps_tenths |-> 5,  max_concurrent |-> 2]
      [] d = "ulta.com"    -> [rps_tenths |-> 10, max_concurrent |-> 2]
      [] d = "google.com"  -> [rps_tenths |-> 2,  max_concurrent |-> 1]

\* The domains the model fetches from: a configured one and one netloc
\* (as produced by urlparse(url).netloc for the crawlers' urls) that has no
\* entry and so falls back to RateLimitConfig().
Domains == {"google.com", "www.sephora.com"}
NoDomain == "-"

\* GlobalRateLimiter.get_limiter: self.configs.get(domain, RateLimitConfig()).
\* The limiter objects are created lazily by the code; creation has no effect
\* besides setting last_request = None and the semaphore to max_concurrent,
\* which is what Init does for every domain.
get_limiter_config(d) ==
    IF d \in ConfiguredDomains
    THEN configs(d)
    ELSE [rps_tenths |-> DEFAULT_RPS_TENTHS,
          max_concurrent |-> DEFAULT_MAX_CONCURRENT]

max_concurrent(d) == get_limiter_config(d).max_concurrent

\* min_interval = 1.0 / requests_per_second, in seconds.
min_interval(d) == 10 \div get_limiter_config(d).rps_tenths

\* asyncio.Semaphore.acquire proceeds without blocking iff a slot is free.
semaphore_free_Mutant(d) == sem_value[d] >= 0
semaphore_free(d) == sem_value[d] > 0

\* acquire(), lines 31-38: whether the caller has to sleep out the interval.
must_wait(d) ==
    /\ IsSome(last_request[d])
    /\ now - Val(last_request[d]) < min_interval(d)

\* wait_time = min_interval - time_since_last, as an absolute due time.
sleep_until(d) == now + (min_interval(d) - (now - Val(last_request[d])))

\* Line 40: self.last_request = datetime.now(); acquire() returns.  The
\* previous stamp is kept in the history variable prev_dispatch.
stamp_last_request(d) ==
    /\ last_request' = [last_request EXCEPT ![d] = Some(now)]
    /\ prev_dispatch' = [prev_dispatch EXCEPT ![d] = last_request[d]]

\* The part of acquire() after the semaphore has been taken, run without
\* suspension: either go to sleep (line 38) or stamp last_request (line 40)
\* and return to fetch().
AfterSemaphore(t, d) ==
    /\ sem_value' = [sem_value EXCEPT ![d] = @ - 1]
    /\ IF must_wait(d)
       THEN /\ fpc' = [fpc EXCEPT ![t] = "rate_sleep"]
            /\ wake_at' = [wake_at EXCEPT ![t] = sleep_until(d)]
            /\ UNCHANGED <<last_request, prev_dispatch>>
       ELSE /\ fpc' = [fpc EXCEPT ![t] = "holding"]
            /\ stamp_last_request(d)
            /\ UNCHANGED wake_at

\* fetch(url) is called: limiter = get_limiter(domain); await limiter.acquire().
\* With a free slot the semaphore is taken at once; otherwise the task blocks
\* inside semaphore.acquire().
FetchStart(t, d) ==
    /\ UNCHANGED otherThanThrottle
    /\ fpc[t] = "idle"
    /\ nfetch < MaxFetches
    /\ nfetch' = nfetch + 1
    /\ fdomain' = [fdomain EXCEPT ![t] = d]
    /\ IF semaphore_free(d)
       THEN AfterSemaphore(t, d)
       ELSE /\ fpc' = [fpc EXCEPT ![t] = "sem_wait"]
            /\ UNCHANGED <<sem_value, wake_at, last_request, prev_dispatch>>
    /\ UNCHANGED now

\* A task blocked in semaphore.acquire() resumes once a slot is free.
SemaphoreWake(t) ==
    /\ UNCHANGED otherThanThrottle
    /\ fpc[t] = "sem_wait"
    /\ semaphore_free(fdomain[t])
    /\ AfterSemaphore(t, fdomain[t])
    /\ UNCHANGED <<now, fdomain, nfetch>>

\* asyncio.sleep(wait_time) is over: line 40 stamps last_request with the
\* current time and acquire() returns.
RateSleepWake(t) ==
    /\ UNCHANGED otherThanThrottle
    /\ fpc[t] = "rate_sleep"
    /\ now >= wake_at[t]
    /\ fpc' = [fpc EXCEPT ![t] = "holding"]
    /\ wake_at' = [wake_at EXCEPT ![t] = 0]
    /\ stamp_last_request(fdomain[t])
    /\ UNCHANGED <<now, sem_value, fdomain, nfetch>>

\* DomainRateLimiter.release.
release(d) == sem_value' = [sem_value EXCEPT ![d] = @ + 1]

\* The try block of fetch() ends (jitter sleep, client.get): a 200 response,
\* another status, httpx.TimeoutException or any other Exception; the finally
\* clause releases the limiter in every case.
FetchEnd(t) ==
    /\ UNCHANGED otherThanThrottle
    /\ fpc[t] = "holding"
    /\ fpc' = [fpc EXCEPT ![t] = "idle"]
    /\ fdomain' = [fdomain EXCEPT ![t] = NoDomain]
    /\ release(fdomain[t])
    /\ UNCHANGED <<now, last_request, wake_at, prev_dispatch, nfetch>>

\* The task is cancelled (asyncio.wait_for's deadline in _gather_results) at
\* one of its await points.  CancelledError raised inside limiter.acquire()
\* leaves fetch() before its try block, so the finally clause does not run;
\* raised inside the try block it is not caught by `except Exception` and the
\* finally clause releases the limiter.
FetchCancel(t) ==
    /\ UNCHANGED otherThanThrottle
    /\ fpc[t] \in {"sem_wait", "rate_sleep", "holding"}
    /\ fpc' = [fpc EXCEPT ![t] = "idle"]
    /\ fdomain' = [fdomain EXCEPT ![t] = NoDomain]
    /\ wake_at' = [wake_at EXCEPT ![t] = 0]
    /\ IF fpc[t] = "holding"
       THEN release(fdomain[t])
       ELSE UNCHANGED sem_value
    /\ UNCHANGED <<now, last_request, prev_dispatch, nfetch>>

\* Time passes.
Tick ==
    /\ UNCHANGED otherThanThrottle
    /\ now < MaxTime
    /\ now' = now + 1
    /\ UNCHANGED <<last_request, sem_value, fpc, fdomain, wake_at,
                   prev_dispatch, nfetch>>

(***************************************************************************)
(* Strings are sequences of one-character strings, so that the code's      *)
(* string operations (strip, split, lower, in) can be modelled by what     *)
(* they do.                                                                *)
(***************************************************************************)
IsSpace(ch) == ch \in {" ", "\t", "\n"}

\* Index of the first character at or after position i that is not
\* whitespace (Len(s) + 1 when there is none), and of the last one at or
\* before position i (0 when there is none).
RECURSIVE first_inked(_, _)
first_inked(s, i) ==
    IF i > Len(s) \/ ~IsSpace(s[i]) THEN i ELSE first_inked(s, i + 1)

RECURSIVE last_inked(_, _)
last_inked(s, i) ==
    IF i < 1 \/ ~IsSpace(s[i]) THEN i ELSE last_inked(s, i - 1)

\* The element of a one-element set.  Written  TheOne({e(v) : v \in {x}}),  it
\* is e(x) with x evaluated once, however often e uses it.
TheOne(S) == CHOOSE x \in S : TRUE

\* str.strip()
Strip(s) ==
    TheOne({SubSeq(v, first_inked(v, 1), last_inked(v, Len(v))) : v \in {s}})

\* str.find(ch) for a one-character ch, from position i: the index of its
\* first occurrence, 0 when it does not occur.
RECURSIVE find_from(_, _, _)
find_from(s, ch, i) ==
    IF i > Len(s) THEN 0
    ELSE IF s[i] = ch THEN i
    ELSE find_from(s, ch, i + 1)

\* str.split(sep)[0] for a one-character separator: the text before the first
\* occurrence of sep, or the whole string when sep does not occur.
SplitFirst(s, sep) ==
    TheOne({IF find_from(v, sep, 1) = 0
            THEN v
            ELSE SubSeq(v, 1, find_from(v, sep, 1) - 1) : v \in {s}})

\* Python truthiness of an Optional[str]: neither None nor "".
Truthy(o) == IsSome(o) /\ Val(o) # <<>>

(***************************************************************************)
(* crawlers/base.py: CrawlResult                                           *)
(***************************************************************************)
CrawlResult(source, url, found_upc, title, price, image_url, description) ==
    [source |-> source, url |-> url, found_upc |-> found_upc, title |-> title,
     price |-> price, image_url |-> image_url, description |-> description]

\* Source names as the crawlers build them: self.source_name for sephora,
\* "google_shopping (<seller>)" or "google_shopping" for google shopping,
\* "upcitemdb" for the UPC database.
SRC_SEPHORA == <<"s", "e", "p", "h", "o", "r", "a">>
SRC_GOOGLE == <<"g", "o", "o", "g", "l", "e", "_", "s", "h", "o", "p", "p", "i", "n", "g">>
SRC_GOOGLE_X == SRC_GOOGLE \o <<" ", "(", "S", "e", "l", "l", "e", "r", " ", "X", ")">>
SRC_GOOGLE_Y == SRC_GOOGLE \o <<" ", "(", "S", "e", "l", "l", "e", "r", " ", "Y", ")">>
SRC_GOOGLE_Z == SRC_GOOGLE \o <<" ", "(", "S", "e", "l", "l", "e", "r", " ", "Z", ")">>
SRC_UPCITEMDB == <<"u", "p", "c", "i", "t", "e", "m", "d", "b">>

TITLE_LINER_1 == <<"D", "I", "B", "S", " ", "B", "e", "a", "u", "t", "y", " ", "L", "i", "p", " ", "L", "i", "n", "e", "r", " ", "#", "1">>
TITLE_LINER_2 == <<"D", "I", "B", "S", " ", "B", "e", "a", "u", "t", "y", " ", "L", "i", "p", " ", "L", "i", "n", "e", "r", " ", "#", "2">>
TITLE_BRAND_ONLY == <<"D", "I", "B", "S", " ", "B", "e", "a", "u", "t", "y">>

\* Prices are in cents.
cand_sephora ==
    CrawlResult(SRC_SEPHORA, "https://www.sephora.com/product/p1", FALSE,
                Some(TITLE_LINER_1), Some(1600), Some("img-sephora"), None)
cand_google_x ==
    CrawlResult(SRC_GOOGLE_X, "https://www.google.com/x", FALSE,
                Some(TITLE_LINER_1), Some(1600), None, None)
cand_google_y ==
    CrawlResult(SRC_GOOGLE_Y, "https://www.google.com/y", FALSE,
                Some(TITLE_LINER_2), Some(1600), Some("img-google-y"), None)
cand_google_z ==
    CrawlResult(SRC_GOOGLE_Z, "https://www.google.com/z", FALSE,
                Some(TITLE_BRAND_ONLY), Some(1600), None, None)
cand_google_plain ==
    CrawlResult(SRC_GOOGLE, "https://www.google.com/search", FALSE,
                Some(TITLE_LINER_1), Some(1800), None, None)
cand_google_noprice ==
    CrawlResult(SRC_GOOGLE_X, "https://www.google.com/x2", FALSE,
                Some(TITLE_LINER_1), None, None, None)
cand_upcitemdb ==
    CrawlResult(SRC_UPCITEMDB, "https://www.upcitemdb.com/upc", TRUE,
                Some(TITLE_LINER_1), Some(1600), None, None)

(***************************************************************************)
(* crawlers/manager.py: CrawlerManager                                     *)
(***************************************************************************)
\* asyncio.wait_for(..., timeout=30.0)
GATHER_TIMEOUT == 30

\* Resolution of the clock of the search model, in seconds.
TickSeconds == 10

\* asyncio.gather(*tasks, return_exceptions=True)
return_exceptions_Mutant == FALSE
return_exceptions == TRUE

BRAND_DIBS == <<"D", "I", "B", "S", " ", "B", "e", "a", "u", "t", "y">>
NAME_LINER == <<"L", "i", "p", " ", "L", "i", "n", "e", "r", " ", "-", " ", "#", "1", " ", "/", " ", "R", "o", "s", "e">>

\* The tasks of _search_by_upc, in the order of the list: sephora,
\* google_shopping, upc_database; and of _search_by_name: google_shopping
\* with the core name, google_shopping with the full name.
UpcTaskIds == 1..3
NameTaskIds == 1..2

\* What each adapter call can return when it completes.
UpcTaskResults(i) ==
    CASE i = 1 -> {<<>>, <<cand_sephora>>}
      [] i = 2 -> {<<>>, <<cand_google_x, cand_google_y>>}
      [] i = 3 -> {<<>>, <<cand_upcitemdb>>}
NameTaskResults(i) ==
    CASE i = 1 -> {<<>>, <<cand_google_z, cand_google_plain>>}
      [] i = 2 -> {<<>>, <<cand_google_noprice>>}

\* _search_by_name, lines 90-92: the core product name.
core_name(product_name) ==
    Strip(SplitFirst(Strip(SplitFirst(product_name, "-")), "/"))

IdleTask == [st |-> "idle", res |-> <<>>, query |-> None]
RunningTask(q) == [st |-> "running", res |-> <<>>, query |-> q]

Tasks == IF spc = "upc_gather" THEN utasks ELSE ntasks

\* _gather_results, lines 113-123: flatten the results that are lists, skip
\* the exceptions.
RECURSIVE flatten_from(_, _)
flatten_from(ts, i) ==
    IF i > Len(ts) THEN <<>>
    ELSE (IF ts[i].st = "done" THEN ts[i].res ELSE <<>>)
         \o flatten_from(ts, i + 1)

flatten_results(ts) == flatten_from(ts, 1)

\* search_all, lines 62-65: the dedup key of a result.
dedup_key_Mutant(r) == <<r.source, r.price>>
dedup_key(r) == <<Strip(SplitFirst(r.source, "(")), r.price>>

\* search_all, lines 59-69: keep the first result of every key, in order.
RECURSIVE dedup_scan(_, _, _)
dedup_scan(results, i, seen) ==
    IF i > Len(results) THEN <<>>
    ELSE LET r == results[i]
             key == dedup_key(r)
         IN IF key \notin seen
            THEN <<r>> \o dedup_scan(results, i + 1, seen \cup {key})
            ELSE dedup_scan(results, i + 1, seen)

\* search_all line 46 -> _search_by_upc -> _gather_results: the three upc
\* searches are handed to asyncio.gather under wait_for.
SearchStart ==
    /\ UNCHANGED otherThanSearch
    /\ spc = "start"
    /\ spc' = "upc_gather"
    /\ utasks' = [i \in UpcTaskIds |-> RunningTask(None)]
    /\ gstart' = sclock
    /\ UNCHANGED <<sclock, in_brand, in_name, ntasks, upc_results,
                   name_results, all_results, unique_results>>

\* An adapter call of the pending gather completes with a list.
TaskDone(i, r) ==
    /\ UNCHANGED otherThanSearch
    /\ spc \in {"upc_gather", "name_gather"}
    /\ i \in DOMAIN Tasks
    /\ Tasks[i].st = "running"
    /\ r \in (IF spc = "upc_gather" THEN UpcTaskResults(i)
                                    ELSE NameTaskResults(i))
    /\ IF spc = "upc_gather"
       THEN /\ utasks' = [utasks EXCEPT ![i].st = "done", ![i].res = r]
            /\ UNCHANGED ntasks
       ELSE /\ ntasks' = [ntasks EXCEPT ![i].st = "done", ![i].res = r]
            /\ UNCHANGED utasks
    /\ UNCHANGED <<sclock, spc, in_brand, in_name, gstart, upc_results,
                   name_results, all_results, unique_results>>

\* An adapter call of the pending gather raises.  With return_exceptions the
\* exception becomes that task's entry of results_list; without it gather
\* would re-raise it into _gather_results and out of search_all.
TaskRaise(i) ==
    /\ UNCHANGED otherThanSearch
    /\ spc \in {"upc_gather", "name_gather"}
    /\ i \in DOMAIN Tasks
    /\ Tasks[i].st = "running"
    /\ IF spc = "upc_gather"
       THEN /\ utasks' = [utasks EXCEPT ![i].st = "raised"]
            /\ UNCHANGED ntasks
       ELSE /\ ntasks' = [ntasks EXCEPT ![i].st = "raised"]
            /\ UNCHANGED utasks
    /\ spc' = IF return_exceptions THEN spc ELSE "raised"
    /\ UNCHANGED <<sclock, in_brand, in_name, gstart, upc_results,
                   name_results, all_results, unique_results>>

\* search_all, lines 56-74, run without suspension once both result lists
\* are known: concatenate, dedup, return.
Finish(upc, name) ==
    /\ spc' = "returned"
    /\ upc_results' = upc
    /\ name_results' = name
    /\ all_results' = upc \o name
    /\ unique_results' = dedup_scan(all_results', 1, {})
    /\ UNCHANGED <<sclock, in_brand, in_name, gstart>>

\* _gather_results has produced `results` for the pending gather; search_all
\* goes on from there (lines 48-54 after the upc gather, 56-74 after the
\* name gather).
Continue(results) ==
    IF spc = "upc_gather"
    THEN IF Truthy(in_brand) /\ Truthy(in_name)
         THEN /\ spc' = "name_gather"
              /\ upc_results' = results
              /\ ntasks' = [i \in NameTaskIds |->
                              IF i = 1
                              THEN RunningTask(Some(core_name(Val(in_name))))
                              ELSE RunningTask(in_name)]
              /\ gstart' = sclock
              /\ UNCHANGED <<sclock, in_brand, in_name, name_results,
                             all_results, unique_results>>
         ELSE /\ Finish(results, <<>>)
              /\ UNCHANGED ntasks
    ELSE /\ Finish(upc_results, results)
         /\ UNCHANGED ntasks

\* Every task of the pending gather has finished before the deadline:
\* wait_for returns results_list, which is flattened.
GatherReturn ==
    /\ UNCHANGED otherThanSearch
    /\ spc \in {"upc_gather", "name_gather"}
    /\ \A i \in DOMAIN Tasks : Tasks[i].st # "running"
    /\ Continue(flatten_results(Tasks))
    /\ UNCHANGED utasks

\* The deadline of wait_for passes with a task still running: the gather is
\* cancelled, asyncio.TimeoutError is caught and [] is returned (lines
\* 109-111).
deadline_reached_Mutant == FALSE
deadline_reached == sclock - gstart >= GATHER_TIMEOUT

Cancelled(ts) ==
    [i \in DOMAIN ts |->
        IF ts[i].st = "running" THEN [ts[i] EXCEPT !.st = "cancelled"]
                                ELSE ts[i]]

GatherTimeout ==
    /\ UNCHANGED otherThanSearch
    /\ spc \in {"upc_gather", "name_gather"}
    /\ \E i \in DOMAIN Tasks : Tasks[i].st = "running"
    /\ deadline_reached
    /\ IF spc = "upc_gather"
       THEN /\ utasks' = Cancelled(utasks)
            /\ IF Truthy(in_brand) /\ Truthy(in_name)
               THEN /\ spc' = "name_gather"
                    /\ upc_results' = <<>>
                    /\ ntasks' = [i \in NameTaskIds |->
                          IF i = 1
                          THEN RunningTask(Some(core_name(Val(in_name))))
                          ELSE RunningTask(in_name)]
                    /\ gstart' = sclock
                    /\ UNCHANGED <<sclock, in_brand, in_name, name_results,
                                   all_results, unique_results>>
               ELSE /\ Finish(<<>>, <<>>)
                    /\ UNCHANGED ntasks
       ELSE /\ ntasks' = Cancelled(ntasks)
            /\ Finish(upc_results, <<>>)
            /\ UNCHANGED utasks

\* Time passes while the gather is pending, TickSeconds at a time; the timer
\* of wait_for fires at the first instant at or after its deadline.
SearchTick ==
    /\ UNCHANGED otherThanSearch
    /\ spc \in {"upc_gather", "name_gather"}
    /\ \E i \in DOMAIN Tasks : Tasks[i].st = "running"
    /\ sclock - gstart < GATHER_TIMEOUT
    /\ sclock' = sclock + TickSeconds
    /\ UNCHANGED <<spc, in_brand, in_name, gstart, utasks, ntasks,
                   upc_results, name_results, all_results, unique_results>>

(***************************************************************************)
(* Regular expressions (Python's re, as verification.py uses it).          *)
(*                                                                         *)
(* A pattern is a tree; Match gives, for a start position, the sequence of *)
(* ways the pattern can match there, in the order in which Python's        *)
(* backtracking matcher tries them, so that the first one is the match     *)
(* re.search reports.  Every pattern of verification.py is applied with    *)
(* re.IGNORECASE: characters are compared after lower-casing.              *)
(***************************************************************************)
UpperCase ==
    <<"A", "B", "C", "D", "E", "F", "G", "H", "I", "J", "K", "L", "M",
      "N", "O", "P", "Q", "R", "S", "T", "U", "V", "W", "X", "Y", "Z">>
LowerCase ==
    <<"a", "b", "c", "d", "e", "f", "g", "h", "i", "j", "k", "l", "m",
      "n", "o", "p", "q", "r", "s", "t", "u", "v", "w", "x", "y", "z">>
Digits == {"0", "1", "2", "3", "4", "5", "6", "7", "8", "9"}
Letters == {LowerCase[k] : k \in 1..26}
Spaces == {" ", "\t", "\n"}

\* str.lower() of one character and of a string.
UpperLetters == {UpperCase[k] : k \in 1..26}
LowerChar(ch) ==
    IF ch \in UpperLetters
    THEN LowerCase[CHOOSE k \in 1..26 : UpperCase[k] = ch]
    ELSE ch
Lower(s) == TheOne({[k \in 1..Len(v) |-> LowerChar(v[k])] : v \in {s}})

\* \w
IsWordChar(ch) == LowerChar(ch) \in Letters \cup Digits \cup {"_"}

\* Pattern constructors.
Chr(set) == [t |-> "chr", set |-> set]
Cat(items) == [t |-> "cat", items |-> items]
Alt(items) == [t |-> "alt", items |-> items]
\* r*, for r a character class (the only repetitions in the program's patterns)
Star(r) == [t |-> "star", r |-> r]
Plus(r) == Cat(<<r, Star(r)>>)
Opt(r) == Alt(<<r, Cat(<<>>)>>)
Group(n, r) == [t |-> "group", n |-> n, r |-> r]
WordBoundary == [t |-> "wordb"]
EndOfString == [t |-> "eos"]
Lit(str) == Cat([k \in 1..Len(str) |-> Chr({str[k]})])

\* The capture groups of a match: group number -> <<start, end>> (end
\* exclusive), <<0, 0>> for a group that did not take part.
NoGroups == [n \in 1..3 |-> <<0, 0>>]

\* The end of the longest run of characters of `set` that starts at position i.
RECURSIVE run_end(_, _, _)
run_end(s, set, i) ==
    IF i <= Len(s) /\ LowerChar(s[i]) \in set THEN run_end(s, set, i + 1) ELSE i

RECURSIVE Match(_, _, _, _), MatchCat(_, _, _, _, _), MatchThen(_, _, _, _, _),
          MatchAlt(_, _, _, _, _)

\* The ways r matches s from position i, given the groups captured so far.
Match(r, s, i, caps) ==
    CASE r.t = "chr" ->
            IF i <= Len(s) /\ LowerChar(s[i]) \in r.set
            THEN <<[e |-> i + 1, c |-> caps]>>
            ELSE <<>>
      [] r.t = "cat" -> MatchCat(r.items, 1, s, i, caps)
      [] r.t = "alt" -> MatchAlt(r.items, 1, s, i, caps)
      [] r.t = "star" ->
            \* greedy: the longest run first, then one character less, ...
            TheOne({[k \in 1..(last - i + 1) |-> [e |-> last + 1 - k, c |-> caps]] :
                    last \in {run_end(s, r.r.set, i)}})
      [] r.t = "group" ->
            TheOne({[k \in 1..Len(inner) |->
                        [e |-> inner[k].e,
                         c |-> [inner[k].c EXCEPT ![r.n] = <<i, inner[k].e>>]]] :
                    inner \in {Match(r.r, s, i, caps)}})
      [] r.t = "wordb" ->
            LET before == i > 1 /\ i - 1 <= Len(s) /\ IsWordChar(s[i - 1])
                after == i <= Len(s) /\ IsWordChar(s[i])
            IN IF before # after THEN <<[e |-> i, c |-> caps]>> ELSE <<>>
      [] r.t = "eos" ->
            IF i = Len(s) + 1 \/ (i = Len(s) /\ s[i] = "\n")
            THEN <<[e |-> i, c |-> caps]>>
            ELSE <<>>

\* items[k], items[k+1], ... one after the other.
MatchCat(items, k, s, i, caps) ==
    IF k > Len(items) THEN <<[e |-> i, c |-> caps]>>
    ELSE TheOne({MatchThen(items, k, s, heads, 1) :
                 heads \in {Match(items[k], s, i, caps)}})

\* For every way heads[j], heads[j+1], ... of matching items[k], in order,
\* the ways of matching the rest of the items after it.
MatchThen(items, k, s, heads, j) ==
    IF j > Len(heads) THEN <<>>
    ELSE MatchCat(items, k + 1, s, heads[j].e, heads[j].c)
         \o MatchThen(items, k, s, heads, j + 1)

\* items[k] | items[k+1] | ...
MatchAlt(items, k, s, i, caps) ==
    IF k > Len(items) THEN <<>>
    ELSE Match(items[k], s, i, caps) \o MatchAlt(items, k + 1, s, i, caps)

\* Whether r can match the empty string, and the characters a non-empty match
\* of r can start with.  A match of r can only start at position i if r can
\* match the empty string or s[i] is one of these characters, so re.search
\* need not try the other positions.
RECURSIVE Nullable(_), FirstChars(_), FirstCharsCat(_, _)
Nullable(r) ==
    CASE r.t = "chr" -> FALSE
      [] r.t = "cat" -> \A k \in 1..Len(r.items) : Nullable(r.items[k])
      [] r.t = "alt" -> \E k \in 1..Len(r.items) : Nullable(r.items[k])
      [] r.t = "group" -> Nullable(r.r)
      [] r.t \in {"star", "wordb", "eos"} -> TRUE
FirstChars(r) ==
    CASE r.t = "chr" -> r.set
      [] r.t = "cat" -> FirstCharsCat(r.items, 1)
      [] r.t = "alt" -> UNION {FirstChars(r.items[k]) : k \in 1..Len(r.items)}
      [] r.t \in {"star", "group"} -> FirstChars(r.r)
      [] r.t \in {"wordb", "eos"} -> {}
FirstCharsCat(items, k) ==
    IF k > Len(items) THEN {}
    ELSE FirstChars(items[k])
         \cup (IF Nullable(items[k]) THEN FirstCharsCat(items, k + 1) ELSE {})

\* re.search(r, s): the match at the leftmost position where r matches, as
\* [start, end, c]; None when there is none.
RECURSIVE search_from(_, _, _, _, _)
search_from(r, s, i, nullable, first) ==
    IF i > Len(s) + 1 THEN None
    ELSE IF ~nullable /\ (i > Len(s) \/ LowerChar(s[i]) \notin first)
    THEN search_from(r, s, i + 1, nullable, first)
    ELSE IF Match(r, s, i, NoGroups) = <<>>
    THEN search_from(r, s, i + 1, nullable, first)
    ELSE TheOne({Some([start |-> i, end |-> ms[1].e, c |-> ms[1].c]) :
                 ms \in {Match(r, s, i, NoGroups)}})
re_search(r, s) ==
    TheOne({search_from(p, v, 1, nullable, first) :
            p \in {r}, v \in {s}, nullable \in {Nullable(r)}, first \in {FirstChars(r)}})

\* match.group(n) and match.group(0).
group(s, m, n) == SubSeq(s, m.c[n][1], m.c[n][2] - 1)
group0(s, m) == SubSeq(s, m.start, m.end - 1)

\* str.isdigit()
isdigit(s) == s # <<>> /\ \A k \in 1..Len(s) : s[k] \in Digits

\* s in t (substring test).
Contains(t, s) ==
    TheOne({\E k \in 0..(Len(u) - Len(v)) : SubSeq(u, k + 1, k + Len(v)) = v :
            u \in {t}, v \in {s}})


(***************************************************************************)
(* app/verification.py: attribute extraction.                              *)
(*                                                                         *)
(* A float is kept exactly, as the fraction num / den; the volumes are in  *)
(* ten-thousandths of a millilitre so that the ounce multiplier 29.5735 is *)
(* the integer 295735.                                                     *)
(***************************************************************************)
\* a or b
OrElse(a, b) == IF Truthy(a) THEN a ELSE b

\* str.replace(old, new), from position i on.
RECURSIVE replace_from(_, _, _, _)
replace_from(s, old, new, i) ==
    IF i > Len(s) THEN <<>>
    ELSE IF i + Len(old) - 1 <= Len(s) /\ SubSeq(s, i, i + Len(old) - 1) = old
         THEN new \o replace_from(s, old, new, i + Len(old))
         ELSE <<s[i]>> \o replace_from(s, old, new, i + 1)
Replace(s, old, new) == TheOne({replace_from(v, old, new, 1) : v \in {s}})

\* " ".join(s.split()): the words of s from position i on, each word after the
\* first one of s preceded by one space.
RECURSIVE join_split_from(_, _)
join_split_from(s, i) ==
    IF i > Len(s) THEN <<>>
    ELSE IF IsSpace(s[i]) THEN join_split_from(s, i + 1)
    ELSE (IF IsSpace(s[i - 1]) THEN <<" ">> ELSE <<>>)
         \o <<s[i]>> \o join_split_from(s, i + 1)
JoinSplit(s) ==
    TheOne({IF v = <<>> THEN <<>>
            ELSE <<v[1]>> \o join_split_from(v, 2) : v \in {Strip(s)}})

\* re.sub(r"[^\d.]", "", s)
DigitsAndDots(s) == SelectSeq(s, LAMBDA ch : ch \in Digits \cup {"."})

\* int() of a string of digits, and float() of digits[.digits] as num / den.
DigitValue(ch) == CHOOSE n \in 0..9 : <<"0", "1", "2", "3", "4", "5", "6", "7", "8", "9">>[n + 1] = ch
RECURSIVE int_upto(_, _)
int_upto(s, i) ==
    IF i = 0 THEN 0 ELSE 10 * int_upto(s, i - 1) + DigitValue(s[i])
RECURSIVE Pow10(_)
Pow10(k) == IF k = 0 THEN 1 ELSE 10 * Pow10(k - 1)
float(value) ==
    TheOne({LET whole == IF dot = 0 THEN v ELSE SubSeq(v, 1, dot - 1)
                frac == IF dot = 0 THEN <<>> ELSE SubSeq(v, dot + 1, Len(v))
            IN [num |-> int_upto(whole \o frac, Len(whole \o frac)),
                den |-> Pow10(Len(frac))] :
            v \in {value}, dot \in {find_from(value, ".", 1)}})

DIGIT == Chr(Digits)
SPACE == Chr(Spaces)
NUMBER == Cat(<<Plus(DIGIT), Opt(Cat(<<Chr({"."}), Plus(DIGIT)>>))>>)

MULT_ML == 10000
MULT_OZ == 295735
MULT_L == 10000000

\* SIZE_PATTERNS: pattern, unit, multiplier (None for the count-based ones).
SIZE_PATTERNS ==
    << [pattern |-> Cat(<<Group(1, NUMBER), Star(SPACE), Lit(<<"m", "l">>), WordBoundary>>),
        unit |-> "ml", multiplier |-> Some(MULT_ML)],
       [pattern |-> Cat(<<Group(1, NUMBER), Star(SPACE), Lit(<<"g">>), WordBoundary>>),
        unit |-> "g", multiplier |-> Some(MULT_ML)],
       [pattern |-> Cat(<<Group(1, NUMBER), Star(SPACE), Lit(<<"o", "z">>), WordBoundary>>),
        unit |-> "oz", multiplier |-> Some(MULT_OZ)],
       [pattern |-> Cat(<<Group(1, NUMBER), Star(SPACE), Lit(<<"f", "l">>), Opt(Chr({"."})),
                          Star(SPACE), Lit(<<"o", "z">>), WordBoundary>>),
        unit |-> "fl oz", multiplier |-> Some(MULT_OZ)],
       [pattern |-> Cat(<<Group(1, NUMBER), Star(SPACE), Lit(<<"l">>), WordBoundary>>),
        unit |-> "L", multiplier |-> Some(MULT_L)],
       [pattern |-> Cat(<<Group(1, Plus(DIGIT)), Star(SPACE),
                          Alt(<<Cat(<<Lit(<<"p", "a", "i", "r">>), Opt(Lit(<<"s">>))>>),
                                Cat(<<Lit(<<"p", "c">>), Opt(Lit(<<"s">>))>>),
                                Cat(<<Lit(<<"p", "i", "e", "c", "e">>), Opt(Lit(<<"s">>))>>),
                                Lit(<<"c", "o", "u", "n", "t">>)>>),
                          WordBoundary>>),
        unit |-> "count", multiplier |-> None],
       [pattern |-> Cat(<<Group(1, Plus(DIGIT)), Star(SPACE), Lit(<<"x">>), Star(SPACE),
                          Group(2, NUMBER), Star(SPACE),
                          Group(3, Alt(<<Lit(<<"m", "l">>), Lit(<<"g">>), Lit(<<"o", "z">>)>>))>>),
        unit |-> "pack", multiplier |-> None] >>

COLOR_CHARS == Letters \cup Digits \cup Spaces \cup {"-"}
SHADE_PREFIX == <<Star(SPACE), Opt(Chr({"#", ":"})), Star(SPACE)>>
COLOR_PATTERNS ==
    << Cat(<<Chr({"#"}), Group(1, Plus(DIGIT))>>),
       Cat(<<Lit(<<"s", "h", "a", "d", "e">>)>> \o SHADE_PREFIX \o <<Group(1, Plus(DIGIT))>>),
       Cat(<<Lit(<<"s", "h", "a", "d", "e">>)>> \o SHADE_PREFIX \o <<Group(1, Plus(Chr(COLOR_CHARS)))>>),
       Cat(<<Lit(<<"c", "o", "l", "o", "r">>)>> \o SHADE_PREFIX \o <<Group(1, Plus(Chr(COLOR_CHARS)))>>),
       Cat(<<Chr({"-"}), Star(SPACE), Chr({"#"}), Group(1, Plus(DIGIT)), Star(SPACE), Chr({"-"})>>),
       Cat(<<Lit(<<"i", "n">>), Plus(SPACE),
             Group(1, Plus(Chr(Letters \cup Digits \cup Spaces))),
             Star(SPACE), EndOfString>>) >>

\* _extract_size: (size, size_normalized) of the first pattern that matches.
RECURSIVE extract_size_from(_, _)
extract_size_from(text, k) ==
    IF k > Len(SIZE_PATTERNS) THEN [size |-> None, size_normalized |-> None]
    ELSE TheOne({
        IF IsSome(m)
        THEN [size |-> Some(group0(text, Val(m))),
              size_normalized |->
                  IF IsSome(SIZE_PATTERNS[k].multiplier)
                  THEN TheOne({Some([num |-> value.num * Val(SIZE_PATTERNS[k].multiplier),
                                     den |-> value.den]) :
                               value \in {float(group(text, Val(m), 1))}})
                  ELSE None]
        ELSE extract_size_from(text, k + 1) :
        m \in {re_search(SIZE_PATTERNS[k].pattern, text)}})
_extract_size(text) == TheOne({extract_size_from(t, 1) : t \in {text}})

\* _extract_color: (color, shade_number) of the first pattern that matches.
RECURSIVE extract_color_from(_, _)
extract_color_from(text, k) ==
    IF k > Len(COLOR_PATTERNS) THEN [color |-> None, shade_number |-> None]
    ELSE TheOne({
        IF IsSome(m)
        THEN TheOne({IF isdigit(value)
                     THEN [color |-> None, shade_number |-> Some(value)]
                     ELSE [color |-> Some(value), shade_number |-> None] :
                     value \in {Strip(group(text, Val(m), 1))}})
        ELSE extract_color_from(text, k + 1) :
        m \in {re_search(COLOR_PATTERNS[k], text)}})
_extract_color(text) == TheOne({extract_color_from(t, 1) : t \in {text}})

\* ExtractedAttributes() and extract_attributes(text).  brand is always None
\* and the gift-set fields are read by nothing in the program: both are left
\* out of the record.
NoAttributes ==
    [size |-> None, size_normalized |-> None, color |-> None,
     shade_number |-> None]
extract_attributes(text) ==
    TheOne({IF t = <<>> THEN NoAttributes
            ELSE TheOne({[size |-> sz.size, size_normalized |-> sz.size_normalized,
                          color |-> col.color, shade_number |-> col.shade_number] :
                         sz \in {_extract_size(Lower(t))}, col \in {_extract_color(t)}}) :
            t \in {text}})


(***************************************************************************)
(* app/verification.py: verification.                                      *)
(*                                                                         *)
(* The formatted messages are kept as records of their parts.              *)
(***************************************************************************)
\* None if x in (None, "null", "None", "") else x
NullStrings == {<<"n", "u", "l", "l">>, <<"N", "o", "n", "e">>, <<>>}
normalize_null(x) == IF x = None \/ Val(x) \in NullStrings THEN None ELSE x

\* x or ''
OrEmpty(x) == IF Truthy(x) THEN Val(x) ELSE <<>>

\* _get_brand_variations
_get_brand_variations(brand) ==
    << brand,
       Replace(brand, <<" ", "b", "e", "a", "u", "t", "y">>, <<>>),
       Replace(brand, <<"t", "h", "e", " ">>, <<>>),
       Replace(brand, <<"&">>, <<"a", "n", "d">>),
       Replace(brand, <<" ", "a", "n", "d", " ">>, <<" ", "&", " ">>),
       Replace(brand, <<" ">>, <<>>),
       Replace(brand, <<"-">>, <<" ">>),
       Replace(brand, <<"-">>, <<>>) >>

\* _verify_brand
_verify_brand(expected_brand, found_text) ==
    TheOne({\/ Contains(found_lower, expected_lower)
            \/ \E k \in 1..Len(brand_variations) :
                   Contains(found_lower, brand_variations[k]) :
            found_lower \in {Lower(found_text)},
            expected_lower \in {Strip(Lower(expected_brand))},
            brand_variations \in {_get_brand_variations(Strip(Lower(expected_brand)))}})

\* Truth value of an Optional[float].
TruthyFloat(x) == IsSome(x) /\ Val(x).num # 0

\* 1 - tolerance <= a / b <= 1 + tolerance, with tolerance = 0.05
TOLERANCE_PERCENT == 5
within_tolerance(a, b) ==
    /\ (100 - TOLERANCE_PERCENT) * b.num * a.den <= 100 * a.num * b.den
    /\ 100 * a.num * b.den <= (100 + TOLERANCE_PERCENT) * b.num * a.den

\* _verify_size
_verify_size(input_attrs, found_attrs) ==
    IF TruthyFloat(input_attrs.size_normalized)
       /\ TruthyFloat(found_attrs.size_normalized)
    THEN within_tolerance(Val(input_attrs.size_normalized),
                          Val(found_attrs.size_normalized))
    ELSE IF Truthy(input_attrs.size) /\ Truthy(found_attrs.size)
    THEN DigitsAndDots(Val(input_attrs.size)) = DigitsAndDots(Val(found_attrs.size))
    ELSE IF Truthy(input_attrs.size) /\ ~Truthy(found_attrs.size)
    THEN FALSE
    ELSE TRUE

\* _fuzzy_color_match
STOP_WORDS == <<<<"t", "h", "e">>, <<"i", "n">>, <<"s", "h", "a", "d", "e">>, <<"c", "o", "l", "o", "r">>, <<"-">>, <<"#">>>>
RECURSIVE remove_stop_words(_, _)
remove_stop_words(s, k) ==
    IF k > Len(STOP_WORDS) THEN s
    ELSE remove_stop_words(Replace(s, STOP_WORDS[k], <<" ">>), k + 1)
_fuzzy_color_match(expected, found) ==
    TheOne({\/ expected_lower = found_lower
            \/ Contains(found_lower, expected_lower)
            \/ Contains(expected_lower, found_lower)
            \/ JoinSplit(remove_stop_words(expected_lower, 1))
                   = JoinSplit(remove_stop_words(found_lower, 1)) :
            expected_lower \in {Strip(Lower(expected))},
            found_lower \in {Strip(Lower(found))}})

\* _verify_color
SHADE_IN_COLOR == Cat(<<Opt(Chr({"#"})), Group(1, Plus(DIGIT))>>)
_verify_color_Mutant(input_color, input_attrs, found_attrs) ==
    IF Truthy(found_attrs.color)
    THEN _fuzzy_color_match(Val(input_color), Val(found_attrs.color))
    ELSE Truthy(found_attrs.shade_number)
_verify_color(input_color, input_attrs, found_attrs) ==
    TheOne({
        LET expected_shade ==
                IF IsSome(shade_match)
                THEN Some(group(Val(input_color), Val(shade_match), 1))
                ELSE input_attrs.shade_number
            expected_color == OrElse(input_color, input_attrs.color)
        IN IF Truthy(expected_shade) /\ Truthy(found_attrs.shade_number)
           THEN expected_shade = found_attrs.shade_number
           ELSE IF Truthy(expected_color) /\ Truthy(found_attrs.color)
           THEN _fuzzy_color_match(Val(expected_color), Val(found_attrs.color))
           ELSE IF (Truthy(expected_shade) \/ Truthy(expected_color))
                   /\ ~(Truthy(found_attrs.shade_number) \/ Truthy(found_attrs.color))
           THEN FALSE
           ELSE TRUE :
        shade_match \in {IF Truthy(input_color)
                         THEN re_search(SHADE_IN_COLOR, Val(input_color))
                         ELSE None}})

\* _calculate_confidence
_calculate_confidence_Mutant(brand_match, size_match, color_match, input_size, input_color) ==
    IF ~brand_match THEN 20
    ELSE 60 + (IF Truthy(input_size) /\ size_match THEN 20 ELSE 0)
            + (IF Truthy(input_color) /\ color_match THEN 20 ELSE 0)
_calculate_confidence(brand_match, size_match, color_match, input_size, input_color) ==
    IF ~brand_match THEN 20
    ELSE LET brand_matched == 60
             after_size ==
                 IF Truthy(input_size)
                 THEN (IF size_match THEN brand_matched + 20 ELSE brand_matched - 30)
                 ELSE brand_matched + 10
             base_confidence ==
                 IF Truthy(input_color)
                 THEN (IF color_match THEN after_size + 20 ELSE after_size - 30)
                 ELSE after_size + 10
         IN Max2(0, Min2(100, base_confidence))

\* _build_reasoning
_build_reasoning(brand_match, size_match, color_match, mismatches) ==
    IF mismatches = <<>>
    THEN [text |-> "Exact match verified",
          confirmed |-> (IF brand_match THEN <<"brand">> ELSE <<>>)
                        \o (IF size_match THEN <<"size">> ELSE <<>>)
                        \o (IF color_match THEN <<"color/shade">> ELSE <<>>)]
    ELSE [text |-> "Verification failed", mismatches |-> mismatches]

VerificationResult(is_exact_match, confidence, brand_match, size_match, color_match, mismatches, reasoning) ==
    [is_exact_match |-> is_exact_match, confidence |-> confidence,
     brand_match |-> brand_match, size_match |-> size_match,
     color_match |-> color_match, mismatches |-> mismatches,
     reasoning |-> reasoning]

\* verify_match
\* Lines 261-262: a UPC match with the brand in the text is trusted.
upc_is_authoritative_Mutant(found_upc_match, brand_match) == FALSE
upc_is_authoritative(found_upc_match, brand_match) == found_upc_match /\ brand_match

verify_match(input_brand, input_name, input_size0, input_color0, found_title, found_description, found_upc_match) ==
    TheOne({
        IF found_text = <<>>
        THEN IF found_upc_match
             THEN VerificationResult(TRUE, 85, TRUE, TRUE, TRUE, <<>>,
                                     [text |-> "UPC matched - product verified by barcode"])
             ELSE VerificationResult(FALSE, 0, FALSE, FALSE, FALSE,
                                     <<[what |-> "No product information found"]>>,
                                     [text |-> "No product title or description available"])
        ELSE TheOne({TheOne({
            LET mismatches ==
                    (IF ~brand_match
                     THEN <<[what |-> "Brand mismatch", expected |-> input_brand]>>
                     ELSE <<>>)
                    \o (IF ~size_match
                        THEN <<[what |-> "Size mismatch", expected |-> input_size,
                                found |-> found_attrs.size]>>
                        ELSE <<>>)
                    \o (IF ~color_match
                        THEN <<[what |-> "Color/shade mismatch",
                                expected |-> OrElse(input_color,
                                                OrElse(input_attrs.color,
                                                       input_attrs.shade_number)),
                                found |-> OrElse(found_attrs.color,
                                                 found_attrs.shade_number)]>>
                        ELSE <<>>)
            IN IF upc_is_authoritative(found_upc_match, brand_match)
               THEN VerificationResult(
                        TRUE,
                        IF size_match /\ color_match THEN 90 ELSE 80,
                        brand_match, size_match, color_match,
                        IF ~(size_match /\ color_match) THEN mismatches ELSE <<>>,
                        [text |-> "UPC verified", note |-> mismatches])
               ELSE VerificationResult(
                        brand_match /\ size_match /\ color_match,
                        _calculate_confidence(brand_match, size_match, color_match,
                                              input_size, input_color),
                        brand_match, size_match, color_match, mismatches,
                        _build_reasoning(brand_match, size_match, color_match,
                                         mismatches)) :
            brand_match \in {_verify_brand(input_brand, found_text)},
            size_match \in {IF Truthy(input_size)
                            THEN _verify_size(input_attrs, found_attrs)
                            ELSE TRUE},
            color_match \in {IF Truthy(input_color)
                             THEN _verify_color(input_color, input_attrs, found_attrs)
                             ELSE TRUE}}) :
            found_attrs \in {extract_attributes(found_text)},
            input_attrs \in {extract_attributes(
                input_name \o <<" ">> \o OrEmpty(input_size)
                           \o <<" ">> \o OrEmpty(input_color))}}) :
        input_size \in {normalize_null(input_size0)},
        input_color \in {normalize_null(input_color0)},
        found_text \in {Strip(OrEmpty(found_title) \o <<" ">>
                              \o OrEmpty(found_description))}})

(***************************************************************************)
(* crawlers/manager.py: aggregate_crawl_results                            *)
(*                                                                         *)
(* The formatted reasoning texts are kept as records of their parts.  A    *)
(* url or an image url is an uninterpreted string.                         *)
(***************************************************************************)
\* Truth value of an Optional[str] that the model keeps as a plain string.
TruthyStr(o) == IsSome(o) /\ Val(o) # ""

\* The garbage filter's test of one result.
is_garbage_Mutant(r, input_upc) == FALSE
is_garbage(r, input_upc) ==
    TheOne({\/ title = input_upc
            \/ title = <<>>
            \/ (desc = input_upc /\ Len(title) < 10) :
            title \in {Strip(OrEmpty(r.title))},
            desc \in {Strip(OrEmpty(r.description))}})

\* valid_results: the results the garbage filter keeps, in order.
valid_results_of(results, input_upc) ==
    SelectSeq(results, LAMBDA r : ~is_garbage(r, input_upc))

\* {"name": r.source, "url": r.url, "found_upc": r.found_upc}
source_entry(r) == [name |-> r.source, url |-> r.url, found_upc |-> r.found_upc]
sources_of(results) == [k \in 1..Len(results) |-> source_entry(results[k])]

\* The record returned when there is nothing to aggregate.
NoResultsRecord ==
    [confidence |-> 0, reasoning |-> [text |-> "No results found from any source"],
     msrp |-> None, image_url |-> None, description |-> None,
     sources |-> <<>>, verification |-> None]
OnlyGarbageRecord_Mutant(results) ==
    [confidence |-> 0,
     reasoning |-> [text |-> "No valid results found (only garbage data)"],
     msrp |-> results[1].price, image_url |-> results[1].image_url,
     description |-> None, sources |-> sources_of(results), verification |-> None]
OnlyGarbageRecord(results) ==
    [confidence |-> 0,
     reasoning |-> [text |-> "No valid results found (only garbage data)"],
     msrp |-> None, image_url |-> None, description |-> None,
     sources |-> sources_of(results), verification |-> None]

\* The verification loop: (result, verification) for every valid result.
verify_results(results, input_brand, input_name, input_size, input_color) ==
    [k \in 1..Len(results) |->
        [r |-> results[k],
         v |-> verify_match(input_brand, input_name, input_size, input_color,
                            results[k].title, results[k].description,
                            results[k].found_upc)]]

\* list.sort(key=..., reverse=...): a stable sort, also when reversed.  The
\* element at position k goes to the place after all whose key sorts strictly
\* before its own and all of equal key that precede it.
sort_place(keys, k, reverse) ==
    Cardinality({j \in 1..Len(keys) :
                    \/ (IF reverse THEN keys[j] > keys[k] ELSE keys[j] < keys[k])
                    \/ (keys[j] = keys[k] /\ j <= k)})
stable_sort(xs, keys, reverse) ==
    TheOne({[p \in 1..Len(xs) |-> xs[CHOOSE k \in 1..Len(xs) : place[k] = p]] :
            place \in {[k \in 1..Len(xs) |-> sort_place(keys, k, reverse)]}})

\* verified_results.sort(key=lambda x: x[1].confidence, reverse=True)
sort_by_confidence_Mutant(verified) == verified
sort_by_confidence(verified) ==
    TheOne({stable_sort(vs, [k \in 1..Len(vs) |-> vs[k].v.confidence],
                        TRUE) : vs \in {verified}})

\* max(xs) of a non-empty list of numbers
MaxOf(xs) == CHOOSE x \in Elems(xs) : \A y \in Elems(xs) : y <= x

\* The price picked as msrp from the prices of the sources without UPC match.
MEDIAN_FACTOR == 3
PERCENTILE_MIN_PRICES == 4
msrp_from_other_Mutant(other_prices0) ==
    TheOne({
        MaxOf(SelectSeq(other_prices, LAMBDA q :
                  q <= other_prices[(Len(other_prices) \div 2) + 1] * MEDIAN_FACTOR)) :
        other_prices \in {stable_sort(other_prices0, other_prices0, FALSE)}})
msrp_from_other(other_prices0) ==
    TheOne({
        LET median == other_prices[(Len(other_prices) \div 2) + 1]
            reasonable_prices ==
                SelectSeq(other_prices, LAMBDA q : q <= median * MEDIAN_FACTOR)
        IN IF reasonable_prices # <<>>
           THEN IF Len(reasonable_prices) >= PERCENTILE_MIN_PRICES
                THEN reasonable_prices[((Len(reasonable_prices) * 3) \div 4) + 1]
                ELSE MaxOf(reasonable_prices)
           ELSE MaxOf(other_prices) :
        other_prices \in {stable_sort(other_prices0, other_prices0, FALSE)}})

\* r.price is not None and r.price > 0
positive_price(r) == IsSome(r.price) /\ Val(r.price) > 0
prices_of(results) == [k \in 1..Len(results) |-> Val(results[k].price)]

\* Lines 290-331: the msrp picked from the results of an aggregated set.
select_msrp_Mutant(results) ==
    LET priced == prices_of(SelectSeq(results, LAMBDA r : positive_price(r)))
    IN IF priced # <<>> THEN Some(MaxOf(priced)) ELSE None
select_msrp(results) ==
    LET upc_prices ==
            prices_of(SelectSeq(results, LAMBDA r : r.found_upc /\ positive_price(r)))
        other_prices ==
            prices_of(SelectSeq(results, LAMBDA r : ~r.found_upc /\ positive_price(r)))
    IN IF upc_prices # <<>> THEN Some(MaxOf(upc_prices))
       ELSE IF other_prices # <<>> THEN Some(msrp_from_other(other_prices))
       ELSE None

\* r.description or r.title
description_or_title(r) == OrElse(r.description, r.title)

\* max(descriptions, key=len): the first of the longest ones.
longest_first(xs) ==
    xs[CHOOSE k \in 1..Len(xs) :
          /\ \A j \in 1..Len(xs) : Len(xs[j]) <= Len(xs[k])
          /\ \A j \in 1..(k - 1) : Len(xs[j]) < Len(xs[k])]

\* next((r.image_url for r in results if r.image_url), None)
first_image(results) ==
    IF \E k \in 1..Len(results) : TruthyStr(results[k].image_url)
    THEN results[CHOOSE k \in 1..Len(results) :
                    /\ TruthyStr(results[k].image_url)
                    /\ \A j \in 1..(k - 1) : ~TruthyStr(results[j].image_url)].image_url
    ELSE None

CONFIDENCE_MULTI_SOURCE == 95
CONFIDENCE_ONE_SOURCE == 85

\* _aggregate_verified_results
_aggregate_verified_results(verified_results, input_upc, is_exact) ==
    LET results == [k \in 1..Len(verified_results) |-> verified_results[k].r]
        best_verification == verified_results[1].v
        with_text == SelectSeq(results, LAMBDA r : Truthy(description_or_title(r)))
        descriptions ==
            [k \in 1..Len(with_text) |-> Val(description_or_title(with_text[k]))]
    IN [confidence |->
            IF is_exact
            THEN (IF Len(results) >= 2 THEN CONFIDENCE_MULTI_SOURCE
                  ELSE CONFIDENCE_ONE_SOURCE)
            ELSE best_verification.confidence,
        reasoning |->
            IF is_exact
            THEN [text |-> "VERIFIED: Exact match confirmed", count |-> Len(results),
                  detail |-> best_verification.reasoning]
            ELSE [text |-> "PARTIAL MATCH", detail |-> best_verification.reasoning],
        msrp |-> select_msrp(results),
        image_url |-> first_image(results),
        description |->
            IF descriptions # <<>> THEN Some(longest_first(descriptions)) ELSE None,
        sources |-> sources_of(results),
        verification |->
            Some([is_exact_match |-> is_exact,
                  brand_match |-> best_verification.brand_match,
                  size_match |-> best_verification.size_match,
                  color_match |-> best_verification.color_match,
                  mismatches |-> best_verification.mismatches])]

HIGH_CONFIDENCE == 70

\* aggregate_crawl_results from the sort on: the record built from the
\* (result, verification) pairs.
select_record(verified_results0, input_upc) ==
    TheOne({
        LET exact_matches == SelectSeq(verified_results, LAMBDA x : x.v.is_exact_match)
            high_confidence ==
                SelectSeq(verified_results, LAMBDA x : x.v.confidence >= HIGH_CONFIDENCE)
        IN IF exact_matches # <<>>
           THEN _aggregate_verified_results(exact_matches, input_upc, TRUE)
           ELSE IF high_confidence # <<>>
           THEN _aggregate_verified_results(high_confidence, input_upc, FALSE)
           ELSE IF verified_results # <<>>
           THEN LET best_result == verified_results[1].r
                    best_verification == verified_results[1].v
                IN [confidence |-> best_verification.confidence,
                    reasoning |-> [text |-> "VERIFICATION FAILED",
                                   detail |-> best_verification.reasoning],
                    msrp |-> best_result.price,
                    image_url |-> best_result.image_url,
                    description |-> description_or_title(best_result),
                    sources |-> <<source_entry(best_result)>>,
                    verification |->
                        Some([is_exact_match |-> FALSE,
                              brand_match |-> best_verification.brand_match,
                              size_match |-> best_verification.size_match,
                              color_match |-> best_verification.color_match,
                              mismatches |-> best_verification.mismatches])]
           ELSE NoResultsRecord :
        verified_results \in {sort_by_confidence(verified_results0)}})

\* aggregate_crawl_results
aggregate_crawl_results(results, input_upc, input_brand, input_name, input_size0, input_color0) ==
    TheOne({
        IF results = <<>> THEN NoResultsRecord
        ELSE IF valid_results = <<>> THEN OnlyGarbageRecord(results)
        ELSE select_record(
                 verify_results(valid_results, input_brand, input_name,
                                input_size, input_color),
                 input_upc) :
        input_size \in {normalize_null(input_size0)},
        input_color \in {normalize_null(input_color0)},
        valid_results \in {valid_results_of(results, input_upc)}})


(***************************************************************************)
(* A call of verify_match.                                                 *)
(***************************************************************************)
UPC_LINER == <<"8", "5", "0", "0", "2", "9", "3", "9", "7", "8", "0", "9">>
NAME_ROSE == <<"N", "o", " ", "P", "r", "e", "s", "s", "u", "r", "e", " ", "L", "i", "p", " ", "L", "i", "n", "e", "r", " ", "-", " ", "#", "1", " ", "-", " ", "O", "n", " ", "t", "h", "e", " ", "R", "o", "s", "e">>
NAME_SERUM == <<"H", "y", "d", "r", "a", "t", "i", "n", "g", " ", "S", "e", "r", "u", "m">>
SIZE_NULL == <<"n", "u", "l", "l">>
SIZE_30ML == <<"3", "0", "m", "l">>
COLOR_SHADE_1 == <<"#", "1">>
COLOR_ROSE == <<"O", "n", " ", "t", "h", "e", " ", "R", "o", "s", "e">>
TITLE_SERUM_31 == <<"D", "I", "B", "S", " ", "B", "e", "a", "u", "t", "y", " ", "S", "e", "r", "u", "m", " ", "3", "1", "m", "l">>
TITLE_SERUM_50 == <<"D", "I", "B", "S", " ", "B", "e", "a", "u", "t", "y", " ", "S", "e", "r", "u", "m", " ", "5", "0", "m", "l", " ", "S", "h", "a", "d", "e", " ", "2">>
TITLE_OTHER_BRAND == <<"G", "l", "o", "w", " ", "S", "e", "r", "u", "m", " ", "3", "0", " ", "m", "l">>
SIZE_FULL == <<"F", "u", "l", "l", " ", "S", "i", "z", "e">>
TITLE_SERUM_PCS == <<"D", "I", "B", "S", " ", "B", "e", "a", "u", "t", "y", " ", "S", "e", "r", "u", "m", " ", "3", "0", " ", "p", "c", "s">>
DESC_ROSE == <<"S", "h", "a", "d", "e", ":", " ", "T", "h", "e", " ", "R", "o", "s", "e">>

\* The inputs a call is checked on.
VerifyBrands == {BRAND_DIBS}
VerifyNames == {NAME_ROSE, NAME_SERUM}
VerifySizes == {None, Some(SIZE_NULL), Some(SIZE_30ML), Some(SIZE_FULL)}
VerifyColors == {None, Some(COLOR_SHADE_1), Some(COLOR_ROSE)}
VerifyTitles ==
    {None, Some(<<>>), Some(TITLE_LINER_1), Some(TITLE_LINER_2),
     Some(TITLE_SERUM_31), Some(TITLE_SERUM_50), Some(TITLE_SERUM_PCS),
     Some(TITLE_OTHER_BRAND)}
VerifyDescriptions == {None, Some(DESC_ROSE)}

VerifyArgs ==
    [input_brand : VerifyBrands, input_name : VerifyNames,
     input_size : VerifySizes, input_color : VerifyColors,
     found_title : VerifyTitles, found_description : VerifyDescriptions,
     found_upc_match : BOOLEAN]

VerifyMatch ==
    /\ UNCHANGED otherThanVerify
    /\ vpc = "called"
    /\ vresult' = Some(verify_match(vargs.input_brand, vargs.input_name,
                                    vargs.input_size, vargs.input_color,
                                    vargs.found_title, vargs.found_description,
                                    vargs.found_upc_match))
    /\ vpc' = "returned"
    /\ UNCHANGED vargs


(***************************************************************************)
(* A call of aggregate_crawl_results.                                      *)
(***************************************************************************)
MaxResults == 3

TITLE_BLANK == <<" ", " ">>
TITLE_SHORT == <<"L", "i", "n", "e", "r">>
DESC_UPC_PADDED == <<" ">> \o UPC_LINER \o <<" ">>

\* Results without content, each with a price and an image of its own.
cand_title_is_upc ==
    CrawlResult(SRC_UPCITEMDB, "https://www.upcitemdb.com/g1", TRUE,
                Some(UPC_LINER), Some(9900), Some("img-g1"), None)
cand_title_blank ==
    CrawlResult(SRC_GOOGLE_X, "https://www.google.com/g2", FALSE,
                Some(TITLE_BLANK), Some(9800), Some("img-g2"), Some(DESC_ROSE))
cand_desc_is_upc ==
    CrawlResult(SRC_GOOGLE_Z, "https://www.google.com/g3", FALSE,
                Some(TITLE_SHORT), Some(9700), Some("img-g3"), Some(DESC_UPC_PADDED))

AggCandidates ==
    {cand_sephora, cand_google_y, cand_upcitemdb,
     cand_title_is_upc, cand_title_blank, cand_desc_is_upc}

AggInputs ==
    [input_upc : {UPC_LINER}, input_brand : {BRAND_DIBS}, input_name : {NAME_ROSE},
     input_size : {None}, input_color : {Some(SIZE_NULL), Some(COLOR_SHADE_1)}]

\* Calls that differ in the prices of their results.  All results have
\* content; their titles name shade #1 (as the input does) or shade #2, and the
\* verdict of each is the one verify_match gives for it.
MaxPriced == 4

PricedInput ==
    [input_upc |-> UPC_LINER, input_brand |-> BRAND_DIBS, input_name |-> NAME_ROSE,
     input_size |-> None, input_color |-> Some(COLOR_SHADE_1)]

PricedCandidates ==
    {CrawlResult(SRC_SEPHORA, "https://www.sephora.com/product/p1", FALSE,
                 Some(TITLE_LINER_1), price, None, None) :
        price \in {None, Some(0), Some(1400), Some(1500), Some(1600),
                   Some(4700), Some(9000)}}
    \cup {CrawlResult(SRC_UPCITEMDB, "https://www.upcitemdb.com/upc", TRUE,
                      Some(TITLE_LINER_1), Some(1000), None, None),
          CrawlResult(SRC_SEPHORA, "https://www.sephora.com/product/p2", TRUE,
                      Some(TITLE_LINER_2), Some(1200), None, None)}
    \cup {CrawlResult(SRC_GOOGLE_Y, "https://www.google.com/y", FALSE,
                      Some(TITLE_LINER_2), price, None, None) :
             price \in {Some(0 - 500), Some(0), Some(1600)}}
    \cup {CrawlResult(SRC_GOOGLE_Z, "https://www.google.com/z", FALSE,
                      Some(TITLE_OTHER_BRAND), Some(1600), None, None)}

VERDICT_SHADE_1 ==
    verify_match(BRAND_DIBS, NAME_ROSE, None, Some(COLOR_SHADE_1),
                 Some(TITLE_LINER_1), None, FALSE)
VERDICT_SHADE_2 ==
    verify_match(BRAND_DIBS, NAME_ROSE, None, Some(COLOR_SHADE_1),
                 Some(TITLE_LINER_2), None, FALSE)
VERDICT_UPC_SHADE_1 ==
    verify_match(BRAND_DIBS, NAME_ROSE, None, Some(COLOR_SHADE_1),
                 Some(TITLE_LINER_1), None, TRUE)
VERDICT_UPC_SHADE_2 ==
    verify_match(BRAND_DIBS, NAME_ROSE, None, Some(COLOR_SHADE_1),
                 Some(TITLE_LINER_2), None, TRUE)

VERDICT_OTHER_BRAND ==
    verify_match(BRAND_DIBS, NAME_ROSE, None, Some(COLOR_SHADE_1),
                 Some(TITLE_OTHER_BRAND), None, FALSE)

\* verify_match for a priced candidate and PricedInput.
priced_verdict(r) ==
    IF r.title = Some(TITLE_OTHER_BRAND) THEN VERDICT_OTHER_BRAND
    ELSE IF r.title = Some(TITLE_LINER_1)
    THEN (IF r.found_upc THEN VERDICT_UPC_SHADE_1 ELSE VERDICT_SHADE_1)
    ELSE (IF r.found_upc THEN VERDICT_UPC_SHADE_2 ELSE VERDICT_SHADE_2)

\* Exact matches without identifier match, for the choice among five and
\* more prices.
MaxQuoted == 5

QuotedCandidates ==
    {CrawlResult(SRC_SEPHORA, "https://www.sephora.com/product/p1", FALSE,
                 Some(TITLE_LINER_1), Some(price), None, None) :
        price \in {0, 1400, 1500, 1600, 4700}}

\* Results of every verdict, for the calls that differ in the order of their
\* results.
MaxShuffled == 3

ShuffledCandidates ==
    {CrawlResult(SRC_SEPHORA, "https://www.sephora.com/product/p1", FALSE,
                 Some(TITLE_LINER_1), Some(price), None, None) : price \in {1400, 1600}}
    \cup {CrawlResult(SRC_UPCITEMDB, "https://www.upcitemdb.com/upc", TRUE,
                      Some(TITLE_LINER_1), Some(1000), None, None)}
    \cup {CrawlResult(SRC_GOOGLE_Y, "https://www.google.com/y", FALSE,
                      Some(TITLE_LINER_2), Some(price), None, None) : price \in {0, 1600}}
    \cup {CrawlResult(SRC_GOOGLE_Z, "https://www.google.com/z", FALSE,
                      Some(TITLE_OTHER_BRAND), Some(1600), None, None)}

\* Lines 153-200: null normalisation, the empty list, the garbage filter.
GarbageFilter ==
    /\ UNCHANGED otherThanAggregate
    /\ apc = "called"
    /\ a_input' = [a_input EXCEPT !.input_size = normalize_null(@),
                                  !.input_color = normalize_null(@)]
    /\ a_valid' = valid_results_of(a_results, a_input.input_upc)
    /\ IF a_results = <<>>
       THEN a_record' = Some(NoResultsRecord) /\ apc' = "returned"
       ELSE IF a_valid' = <<>>
       THEN a_record' = Some(OnlyGarbageRecord(a_results)) /\ apc' = "returned"
       ELSE a_record' = a_record /\ apc' = "filtered"
    /\ UNCHANGED <<a_results, a_verified>>

\* Lines 202-221: every valid result goes through verify_match.
VerifyResults ==
    /\ UNCHANGED otherThanAggregate
    /\ apc = "filtered"
    /\ a_verified' = verify_results(a_valid, a_input.input_brand, a_input.input_name,
                                    a_input.input_size, a_input.input_color)
    /\ apc' = "verified"
    /\ UNCHANGED <<a_results, a_input, a_valid, a_record>>

\* Lines 223-274: sort, pick the tier, build the record.
SelectRecord ==
    /\ UNCHANGED otherThanAggregate
    /\ apc = "verified"
    /\ a_record' = Some(select_record(a_verified, a_input.input_upc))
    /\ apc' = "returned"
    /\ UNCHANGED <<a_results, a_input, a_valid, a_verified>>


(***************************************************************************)
(* msrp_lookup.py (prices in cents)                                        *)
(***************************************************************************)
PRICE_MINIMUMS ==
    << <<<<"m", "u", "d", " ", "m", "a", "s", "k">>, 2400>>,
       <<<<"s", "h", "e", "e", "t", " ", "m", "a", "s", "k">>, 1500>>,
       <<<<"f", "a", "c", "e", " ", "m", "a", "s", "k">>, 2200>>,
       <<<<"m", "a", "s", "k">>, 2000>>,
       <<<<"l", "i", "p", " ", "l", "i", "n", "e", "r">>, 1400>>,
       <<<<"l", "i", "p", " ", "g", "l", "o", "s", "s">>, 1400>>,
       <<<<"l", "i", "p", "s", "t", "i", "c", "k">>, 1400>>,
       <<<<"l", "i", "p">>, 1400>>,
       <<<<"f", "o", "u", "n", "d", "a", "t", "i", "o", "n">>, 2500>>,
       <<<<"m", "a", "s", "c", "a", "r", "a">>, 1400>>,
       <<<<"e", "y", "e", "s", "h", "a", "d", "o", "w">>, 1800>>,
       <<<<"c", "l", "e", "a", "n", "s", "e", "r">>, 1800>>,
       <<<<"m", "o", "i", "s", "t", "u", "r", "i", "z", "e", "r">>, 2200>>,
       <<<<"s", "e", "r", "u", "m">>, 3000>>,
       <<<<"e", "a", "u", " ", "d", "e", " ", "p", "a", "r", "f", "u", "m">>, 6000>>,
       <<<<"e", "a", "u", " ", "d", "e", " ", "t", "o", "i", "l", "e", "t", "t", "e">>, 4500>>,
       <<<<"f", "r", "a", "g", "r", "a", "n", "c", "e">>, 5000>>,
       <<<<"p", "e", "r", "f", "u", "m", "e">>, 5000>>,
       <<<<"c", "o", "l", "o", "g", "n", "e">>, 4500>>,
       <<<<"g", "i", "f", "t", " ", "s", "e", "t">>, 4500>>,
       <<<<"p", "a", "l", "e", "t", "t", "e">>, 2500>>,
       <<<<"p", "r", "i", "m", "e", "r">>, 2000>>,
       <<<<"c", "o", "n", "c", "e", "a", "l", "e", "r">>, 1600>>,
       <<<<"b", "l", "u", "s", "h">>, 1800>>,
       <<<<"b", "r", "o", "n", "z", "e", "r">>, 2000>>,
       <<<<"h", "i", "g", "h", "l", "i", "g", "h", "t", "e", "r">>, 2000>>,
       <<<<"s", "e", "t", "t", "i", "n", "g", " ", "s", "p", "r", "a", "y">>, 1800>>,
       <<<<"s", "e", "t", "t", "i", "n", "g", " ", "p", "o", "w", "d", "e", "r">>, 2000>> >>
DEFAULT_MINIMUM == 1500

\* get_min_expected_price
RECURSIVE min_expected_from(_, _)
min_expected_from(product_lower, k) ==
    IF k > Len(PRICE_MINIMUMS) THEN DEFAULT_MINIMUM
    ELSE IF Contains(product_lower, PRICE_MINIMUMS[k][1]) THEN PRICE_MINIMUMS[k][2]
    ELSE min_expected_from(product_lower, k + 1)
get_min_expected_price(product_type) ==
    TheOne({min_expected_from(product_lower, 1) : product_lower \in {Lower(product_type)}})

\* lookup_msrp, given the prices _search_retailer found at the authoritative
\* retailers: the highest of them, else the pick among current_prices.
lookup_msrp(current_prices, retailer_prices) ==
    IF retailer_prices # <<>> THEN Some(MaxOf(retailer_prices))
    ELSE IF current_prices = <<>> THEN None
    ELSE LET sorted == stable_sort(current_prices, current_prices, FALSE)
             median == sorted[(Len(sorted) \div 2) + 1]
             reasonable == SelectSeq(current_prices, LAMBDA q : q <= median * MEDIAN_FACTOR)
         IN IF reasonable # <<>> THEN Some(MaxOf(reasonable))
            ELSE Some(MaxOf(current_prices))

(***************************************************************************)
(* image_client.py: ImageVerificationClient.verify_image                   *)
(*                                                                         *)
(* `service` is what the image service does with the request: it answers   *)
(* with a verdict, answers with an error status, times out, or fails.      *)
(* brand_detected, product_detected and raw_scores are passed through and  *)
(* read by nothing: they are left out.                                     *)
(***************************************************************************)
ImageVerificationResult(is_verified, confidence, reasoning) ==
    [is_verified |-> is_verified, confidence |-> confidence, reasoning |-> reasoning]

verify_image(image_url, available, service) ==
    IF ~available
    THEN ImageVerificationResult(FALSE, 0, "Image verification service not available")
    ELSE IF ~TruthyStr(image_url)
    THEN ImageVerificationResult(FALSE, 0, "No image URL provided")
    ELSE CASE service.kind = "answer" ->
                ImageVerificationResult(service.is_verified, service.confidence, "answer")
           [] service.kind = "status" ->
                ImageVerificationResult(FALSE, 0, "Image service error")
           [] service.kind = "timeout" ->
                ImageVerificationResult(FALSE, 0, "Image verification timed out")
           [] service.kind = "failure" ->
                ImageVerificationResult(FALSE, 0, "Image verification failed")

(***************************************************************************)
(* service.py: EnrichmentService.enrich_product                            *)
(***************************************************************************)
MaxRequests == 2
MaxCrawlResults == 2

cand_google_cheap ==
    CrawlResult(SRC_GOOGLE, "https://www.google.com/cheap", FALSE,
                Some(TITLE_LINER_1), Some(900), None, None)

EnrichInputs ==
    [upc : {UPC_LINER}, brand_name : {BRAND_DIBS}, name : {NAME_ROSE},
     size : {None}, color : {Some(COLOR_SHADE_1)}]

\* What search_all may return, what the image fetcher may find, what the
\* retailers may quote, and what the image service may do.
cand_upc_cheap ==
    CrawlResult(SRC_UPCITEMDB, "https://www.upcitemdb.com/cheap", TRUE,
                Some(TITLE_LINER_1), Some(1000), None, None)

EnrichCandidates ==
    {cand_sephora, cand_upcitemdb, cand_google_cheap, cand_google_y, cand_upc_cheap}
CrawlLists == UNION {[1..n -> EnrichCandidates] : n \in 0..MaxCrawlResults}
FetchedImages == {None, Some("img-fetched")}
RetailerQuotes == {<<>>, <<1200>>, <<2200>>}
ImageConfidences == {0, 49, 50, 70, 71, 100}
ImageServiceOutcomes ==
    [kind : {"answer"}, is_verified : BOOLEAN, confidence : ImageConfidences]
    \cup {[kind |-> "status"], [kind |-> "timeout"], [kind |-> "failure"]}

\* _db_to_output
_db_to_output(product) ==
    [upc |-> product.upc, brand |-> product.brand,
     product_name |-> product.product_name, size |-> product.size,
     color |-> product.color,
     msrp |-> IF IsSome(product.msrp) /\ Val(product.msrp) # 0
              THEN product.msrp ELSE None,
     image_url |-> product.image_url, description |-> product.description,
     confidence_score |-> product.confidence_score,
     reasoning |-> [text |-> "Cached result", count |-> product.source_count],
     sources |-> product.sources,
     verification |-> Some([is_exact_match |-> TRUE, brand_match |-> TRUE,
                            size_match |-> TRUE, color_match |-> TRUE,
                            mismatches |-> <<>>]),
     image_verification |-> None]

\* The row _save_to_db adds.
saved_row(product_input, aggregated) ==
    [upc |-> product_input.upc, brand |-> product_input.brand_name,
     product_name |-> product_input.name, size |-> product_input.size,
     color |-> product_input.color, msrp |-> aggregated.msrp,
     image_url |-> aggregated.image_url, description |-> aggregated.description,
     confidence_score |-> aggregated.confidence,
     sources |-> aggregated.sources, source_count |-> Len(aggregated.sources)]

\* Lines 40-44: the cache lookup.
CacheLookup ==
    /\ UNCHANGED otherThanEnrich
    /\ epc = "called"
    /\ IF IsSome(e_db)
       THEN e_output' = Some(_db_to_output(Val(e_db))) /\ epc' = "returned"
       ELSE e_output' = e_output /\ epc' = "crawl"
    /\ UNCHANGED <<e_input, e_db, e_available, e_aggregated,
                   e_image_verification, e_requests>>

\* Lines 48-77: search_all returns crawl_results; they are aggregated.
CrawlAndAggregate(crawl_results) ==
    /\ UNCHANGED otherThanEnrich
    /\ epc = "crawl"
    /\ e_aggregated' =
           Some(aggregate_crawl_results(crawl_results, e_input.upc,
                    e_input.brand_name, e_input.name,
                    normalize_null(e_input.size), normalize_null(e_input.color)))
    /\ epc' = "fetch_image"
    /\ UNCHANGED <<e_input, e_db, e_available, e_image_verification,
                   e_output, e_requests>>

\* Lines 79-109: an image is searched for when the aggregation has none.
FetchImage(fetched) ==
    /\ UNCHANGED otherThanEnrich
    /\ epc = "fetch_image"
    /\ e_aggregated' =
           IF ~TruthyStr(Val(e_aggregated).image_url) /\ TruthyStr(fetched)
           THEN Some([Val(e_aggregated) EXCEPT !.image_url = fetched])
           ELSE e_aggregated
    /\ epc' = "price_floor"
    /\ UNCHANGED <<e_input, e_db, e_available, e_image_verification,
                   e_output, e_requests>>

\* Lines 128-133: the floor is applied to a price that is there and below the
\* minimum, unless a source had the UPC.
floor_applies_Mutant(current_msrp, min_expected, has_upc_price) ==
    /\ IsSome(current_msrp) /\ Val(current_msrp) # 0
    /\ min_expected # 0
    /\ Val(current_msrp) < min_expected
floor_applies(current_msrp, min_expected, has_upc_price) ==
    /\ IsSome(current_msrp) /\ Val(current_msrp) # 0
    /\ min_expected # 0
    /\ Val(current_msrp) < min_expected
    /\ ~has_upc_price

\* Lines 111-154: the minimum price of the product type.
PriceFloor(retailer_prices) ==
    /\ UNCHANGED otherThanEnrich
    /\ epc = "price_floor"
    /\ LET aggregated == Val(e_aggregated)
           current_msrp == aggregated.msrp
           has_upc_price ==
               \E k \in 1..Len(aggregated.sources) : aggregated.sources[k].found_upc
           min_expected == get_min_expected_price(e_input.name)
           better_msrp == lookup_msrp(<<Val(current_msrp)>>, retailer_prices)
       IN e_aggregated' =
              IF floor_applies(current_msrp, min_expected, has_upc_price)
              THEN IF IsSome(better_msrp) /\ Val(better_msrp) # 0
                      /\ Val(better_msrp) >= min_expected
                   THEN Some([aggregated EXCEPT !.msrp = better_msrp])
                   ELSE Some([aggregated EXCEPT !.msrp = Some(min_expected)])
              ELSE e_aggregated
    /\ epc' = "verify_image"
    /\ UNCHANGED <<e_input, e_db, e_available, e_image_verification,
                   e_output, e_requests>>

\* Lines 156-178: the image, if there is one, is verified.  is_available()
\* asks the service once and keeps the answer.
VerifyImage(healthy, service) ==
    /\ UNCHANGED otherThanEnrich
    /\ epc = "verify_image"
    /\ IF TruthyStr(Val(e_aggregated).image_url)
       THEN /\ e_available' = IF IsSome(e_available) THEN e_available ELSE Some(healthy)
            /\ e_image_verification' =
                   Some(verify_image(Val(e_aggregated).image_url,
                                     Val(e_available'), service))
       ELSE /\ e_available' = e_available
            /\ e_image_verification' = None
    /\ epc' = "finish"
    /\ UNCHANGED <<e_input, e_db, e_aggregated, e_output, e_requests>>

SAVE_CONFIDENCE == 85
IMAGE_BOOST_ABOVE == 70
IMAGE_REDUCE_BELOW == 50
IMAGE_BOOST == 5
IMAGE_REDUCE == 10

\* Lines 184-193: the confidence after the image verification.
final_confidence(confidence, image_verification) ==
    IF IsSome(image_verification)
    THEN IF Val(image_verification).is_verified
            /\ Val(image_verification).confidence > IMAGE_BOOST_ABOVE
         THEN Min2(100, confidence + IMAGE_BOOST)
         ELSE IF ~Val(image_verification).is_verified
                 /\ Val(image_verification).confidence < IMAGE_REDUCE_BELOW
         THEN Max2(0, confidence - IMAGE_REDUCE)
         ELSE confidence
    ELSE confidence

\* Line 195: the condition of the save.
should_save_Mutant(confidence, is_verified) == is_verified
should_save(confidence, is_verified) == confidence >= SAVE_CONFIDENCE /\ is_verified

\* Lines 180-213: the final confidence, the save, the output.
SaveAndReturn ==
    /\ UNCHANGED otherThanEnrich
    /\ epc = "finish"
    /\ LET aggregated == Val(e_aggregated)
           verification == aggregated.verification
           is_verified == IsSome(verification) /\ Val(verification).is_exact_match
           confidence == final_confidence(aggregated.confidence, e_image_verification)
       IN /\ e_db' = IF should_save(confidence, is_verified)
                     THEN Some(saved_row(e_input, aggregated))
                     ELSE e_db
          /\ e_output' =
                 Some([upc |-> e_input.upc, brand |-> e_input.brand_name,
                       product_name |-> e_input.name, size |-> e_input.size,
                       color |-> e_input.color, msrp |-> aggregated.msrp,
                       image_url |-> aggregated.image_url,
                       description |-> aggregated.description,
                       confidence_score |-> confidence,
                       reasoning |-> aggregated.reasoning,
                       sources |-> aggregated.sources,
                       verification |-> verification,
                       image_verification |-> e_image_verification])
    /\ epc' = "returned"
    /\ UNCHANGED <<e_input, e_available, e_aggregated, e_image_verification,
                   e_requests>>

\* The next request for the same product.
NextRequest ==
    /\ UNCHANGED otherThanEnrich
    /\ epc = "returned"
    /\ e_requests < MaxRequests
    /\ e_requests' = e_requests + 1
    /\ epc' = "called"
    /\ e_aggregated' = None
    /\ e_image_verification' = None
    /\ e_output' = None
    /\ UNCHANGED <<e_input, e_db, e_available>>


(***************************************************************************)
(* The source adapters (crawlers/sephora.py, crawlers/upc_database.py,     *)
(* crawlers/google_shopping.py) over the outcome of BaseCrawler.fetch.     *)
(* A Python call either returns a value or raises an exception.            *)
(***************************************************************************)
Returns(v) == [exc |-> "", val |-> v]
Raises(e) == [exc |-> e, val |-> <<>>]

\* JSON values as json.loads builds them; strings are character sequences.
JNull == [type |-> "null"]
JStr(s) == [type |-> "string", s |-> s]
JNum(cents) == [type |-> "number", n |-> cents]
JArr(items) == [type |-> "array", items |-> items]
JObj(fields) == [type |-> "object", fields |-> fields]

\* bool(v)
truthy(v) ==
    CASE v.type = "null" -> FALSE
      [] v.type = "string" -> v.s # <<>>
      [] v.type = "number" -> v.n # 0
      [] v.type = "array" -> v.items # <<>>
      [] v.type = "object" -> DOMAIN v.fields # {}

\* dict.get(key)
dict_get(data, key) ==
    IF key \in DOMAIN data.fields THEN data.fields[key] ELSE JNull

\* A JSON string or null as an optional string.
opt_str(v) == IF v.type = "string" THEN Some(v.s) ELSE None

PRICE_16 == <<"1", "6", ".", "0", "0">>
PRICE_NA == <<"N", "/", "A">>
UPC_OTHER == <<"8", "5", "0", "0", "2", "9", "3", "9", "7", "8", "1", "6">>

\* The payloads of the adapters' tests, by what json.loads makes of them.
TEXT_PRODUCT == "{\"name\": \"DIBS Beauty Lip Liner #1\", \"gtin13\": \"850029397809\", \"offers\": {\"price\": \"16.00\"}}"
TEXT_OTHER_UPC == "{\"name\": \"DIBS Beauty Lip Liner #1\", \"gtin12\": \"850029397816\", \"offers\": {\"price\": \"N/A\"}}"
TEXT_NO_GTIN == "{\"name\": \"DIBS Beauty Lip Liner #1\", \"offers\": [{\"price\": \"16.00\"}]}"
TEXT_GRAPH == "[{\"@type\": \"Product\", \"name\": \"DIBS Beauty Lip Liner #1\"}]"
TEXT_NULL == "null"
TEXT_CUT == "{\"name\": \"DIBS Beauty Lip"
TEXT_ITEM == "{\"code\": \"OK\", \"items\": [{\"title\": \"DIBS Beauty Lip Liner #1\", \"offers\": [{\"price\": 10.0}, {\"price\": 16.0}]}]}"
TEXT_NO_ITEMS == "{\"code\": \"OK\", \"items\": []}"
TEXT_LIMIT == "{\"code\": \"EXCEED_LIMIT\"}"
TEXT_ITEMS_MAP == "{\"code\": \"OK\", \"items\": {\"first\": {}}}"
TEXT_MIXED_OFFERS == "{\"code\": \"OK\", \"items\": [{\"offers\": [{\"price\": 10.0}, {\"price\": \"16.00\"}]}]}"
TEXT_FOOD == "{\"status\": 1, \"product\": {\"product_name\": \"DIBS Beauty Lip Liner #1\"}}"
TEXT_FOOD_LIST == "{\"status\": 1, \"product\": [\"DIBS\"]}"
TEXT_FOOD_NONE == "{\"status\": 0}"

\* json.loads(s); s is None where Python has None in place of a string.
json_loads(s) ==
    IF s = None THEN Raises("TypeError")
    ELSE CASE Val(s) = TEXT_PRODUCT ->
                Returns(JObj([name |-> JStr(TITLE_LINER_1), gtin13 |-> JStr(UPC_LINER),
                              offers |-> JObj([price |-> JStr(PRICE_16)])]))
           [] Val(s) = TEXT_OTHER_UPC ->
                Returns(JObj([name |-> JStr(TITLE_LINER_1), gtin12 |-> JStr(UPC_OTHER),
                              offers |-> JObj([price |-> JStr(PRICE_NA)])]))
           [] Val(s) = TEXT_NO_GTIN ->
                Returns(JObj([name |-> JStr(TITLE_LINER_1),
                              offers |-> JArr(<<JObj([price |-> JStr(PRICE_16)])>>)]))
           [] Val(s) = TEXT_GRAPH ->
                Returns(JArr(<<JObj([name |-> JStr(TITLE_LINER_1)])>>))
           [] Val(s) = TEXT_NULL -> Returns(JNull)
           [] Val(s) = TEXT_ITEM ->
                Returns(JObj([code |-> JStr(<<"O", "K">>),
                              items |-> JArr(<<JObj([title |-> JStr(TITLE_LINER_1),
                                  offers |-> JArr(<<JObj([price |-> JNum(1000)]),
                                                    JObj([price |-> JNum(1600)])>>)])>>)]))
           [] Val(s) = TEXT_NO_ITEMS ->
                Returns(JObj([code |-> JStr(<<"O", "K">>), items |-> JArr(<<>>)]))
           [] Val(s) = TEXT_LIMIT ->
                Returns(JObj([code |-> JStr(<<"E", "X", "C", "E", "E", "D", "_", "L", "I", "M", "I", "T">>)]))
           [] Val(s) = TEXT_ITEMS_MAP ->
                Returns(JObj([code |-> JStr(<<"O", "K">>),
                              items |-> JObj([first |-> JObj(<<>>)])]))
           [] Val(s) = TEXT_MIXED_OFFERS ->
                Returns(JObj([code |-> JStr(<<"O", "K">>),
                              items |-> JArr(<<JObj([
                                  offers |-> JArr(<<JObj([price |-> JNum(1000)]),
                                                    JObj([price |-> JStr(PRICE_16)])>>)])>>)]))
           [] Val(s) = TEXT_FOOD ->
                Returns(JObj([status |-> JNum(100),
                              product |-> JObj([product_name |-> JStr(TITLE_LINER_1)])]))
           [] Val(s) = TEXT_FOOD_LIST ->
                Returns(JObj([status |-> JNum(100),
                              product |-> JArr(<<JStr(<<"D", "I", "B", "S">>)>>)]))
           [] Val(s) = TEXT_FOOD_NONE -> Returns(JObj([status |-> JNum(0)]))
           [] OTHER -> Raises("JSONDecodeError")

\* float(v) of a JSON value, in cents.
py_float(v) ==
    CASE v.type = "number" -> Returns(v.n)
      [] v.type = "string" ->
            IF v.s = PRICE_16 THEN Returns(1600) ELSE Raises("ValueError")
      [] OTHER -> Raises("TypeError")

\* base.py lines 95-108: what fetch returns for the outcome of client.get.
FetchOutcomes == {"200", "404", "timeout", "connect_error"}

fetch_returns(outcome, text) == IF outcome = "200" THEN Some(text) ELSE None

\* not html
no_content(html) == html = None \/ Val(html).empty

\* ---- crawlers/sephora.py
URL_PRODUCT_1 == "https://www.sephora.com/product/lip-liner-1"
URL_PRODUCT_2 == "https://www.sephora.com/product/lip-liner-2"
URL_PRODUCT_3 == "https://www.sephora.com/product/lip-liner-3"

\* A search page by the product links _extract_product_urls finds in it, in
\* the order list(set(urls)) gives them.
SephoraSearchPage(empty, product_urls) == [empty |-> empty, product_urls |-> product_urls]

SephoraSearchPages ==
    {SephoraSearchPage(TRUE, <<>>), SephoraSearchPage(FALSE, <<>>),
     SephoraSearchPage(FALSE, <<URL_PRODUCT_1>>),
     SephoraSearchPage(FALSE, <<URL_PRODUCT_1, URL_PRODUCT_2>>),
     SephoraSearchPage(FALSE, <<URL_PRODUCT_3, URL_PRODUCT_2, URL_PRODUCT_1>>)}

\* A product page by what BeautifulSoup finds in it: the first
\* <script type="application/ld+json"> (json_ld: None, or Some of the
\* element's .string, which is None for an element without text), and the
\* title and price the fallback selectors give.
SephoraProductPage(empty, json_ld, title, price) ==
    [empty |-> empty, json_ld |-> json_ld, title |-> title, price |-> price]

SephoraProductPages ==
    {SephoraProductPage(TRUE, None, None, None),
     SephoraProductPage(FALSE, None, None, None),
     SephoraProductPage(FALSE, None, Some(TITLE_LINER_1), Some(1600)),
     SephoraProductPage(FALSE, Some(None), Some(TITLE_LINER_1), Some(1600))}
    \cup {SephoraProductPage(FALSE, Some(Some(t)), Some(TITLE_LINER_1), None) :
            t \in {TEXT_PRODUCT, TEXT_OTHER_UPC, TEXT_NO_GTIN, TEXT_GRAPH,
                   TEXT_NULL, TEXT_CUT}}

\* Lines 134-177.
_parse_html_fallback(page, url) ==
    CrawlResult(SRC_SEPHORA, url, FALSE, page.title, page.price, None, None)

\* a or b
py_or(a, b) == IF truthy(a) THEN a ELSE b

\* Lines 93-126: the body of the try block.
parse_json_ld(string, url, expected_upc) ==
    LET loaded == json_loads(string)
        data == loaded.val
    IN IF loaded.exc # "" THEN loaded
       ELSE IF data.type # "object" THEN Raises("AttributeError")
       ELSE LET upc == py_or(dict_get(data, "gtin13"),
                             py_or(dict_get(data, "gtin12"), dict_get(data, "gtin")))
                found_upc ==
                    IF expected_upc # None /\ truthy(upc)
                    THEN upc.type = "string" /\ upc.s = Val(expected_upc)
                    ELSE truthy(upc)
                offers == IF "offers" \in DOMAIN data.fields
                          THEN data.fields["offers"] ELSE JObj(<<>>)
                price_str == IF offers.type = "object"
                             THEN dict_get(offers, "price") ELSE JNull
                price == IF truthy(price_str) /\ py_float(price_str).exc = ""
                         THEN Some(py_float(price_str).val) ELSE None
            IN Returns(CrawlResult(SRC_SEPHORA, url, found_upc,
                                   opt_str(dict_get(data, "name")), price,
                                   opt_str(dict_get(data, "image")),
                                   opt_str(dict_get(data, "description"))))

\* Lines 76-132: only json.JSONDecodeError is caught.
parse_product_page(page, url, expected_upc) ==
    IF page.json_ld # None
          /\ parse_json_ld(Val(page.json_ld), url, expected_upc).exc
                 # "JSONDecodeError"
    THEN parse_json_ld(Val(page.json_ld), url, expected_upc)
    ELSE Returns(_parse_html_fallback(page, url))

\* ---- crawlers/upc_database.py
ApiResponse(empty, text) == [empty |-> empty, text |-> text]

UpcItemDbResponses ==
    {ApiResponse(TRUE, "")}
    \cup {ApiResponse(FALSE, t) :
            t \in {TEXT_ITEM, TEXT_NO_ITEMS, TEXT_LIMIT, TEXT_ITEMS_MAP,
                   TEXT_MIXED_OFFERS, TEXT_GRAPH, TEXT_NULL, TEXT_CUT}}

OpenFoodFactsResponses ==
    {ApiResponse(TRUE, "")}
    \cup {ApiResponse(FALSE, t) :
            t \in {TEXT_FOOD, TEXT_FOOD_LIST, TEXT_FOOD_NONE, TEXT_GRAPH, TEXT_CUT}}

\* max(prices) of the truthy o.get('price') of the offers.
max_offer_price(offers) ==
    LET prices == {offers.items[k].fields["price"] : k \in
                     {j \in 1..Len(offers.items) :
                        /\ "price" \in DOMAIN offers.items[j].fields
                        /\ truthy(offers.items[j].fields["price"])}}
    IN IF prices = {} THEN Returns(None)
       ELSE IF \E p \in prices : p.type # "number" THEN Raises("TypeError")
       ELSE Returns(Some(TheOne({p.n : p \in {q \in prices :
                                     \A r \in prices : r.n <= q.n}})))

\* Lines 53-79: the body of the try block after the fetch.
upcitemdb_item(text) ==
    LET loaded == json_loads(Some(text))
        data == loaded.val
    IN IF loaded.exc # "" THEN loaded
       ELSE IF data.type # "object" THEN Raises("AttributeError")
       ELSE IF ~(/\ dict_get(data, "code").type = "string"
                 /\ dict_get(data, "code").s = <<"O", "K">>
                 /\ truthy(dict_get(data, "items")))
       THEN Returns(None)
       ELSE IF dict_get(data, "items").type # "array" THEN Raises("KeyError")
       ELSE LET item == dict_get(data, "items").items[1]
                offers == IF "offers" \in DOMAIN item.fields
                          THEN item.fields["offers"] ELSE JArr(<<>>)
                price == IF truthy(offers) THEN max_offer_price(offers)
                         ELSE Returns(None)
            IN IF item.type # "object" THEN Raises("AttributeError")
               ELSE IF price.exc # "" THEN price
               ELSE Returns(Some(CrawlResult(SRC_UPCITEMDB,
                        "https://www.upcitemdb.com/upc/850029397809", TRUE,
                        opt_str(dict_get(item, "title")), price.val, None,
                        opt_str(dict_get(item, "description")))))

\* Lines 40-86: every exception of the body is caught.
_search_upcitemdb(html) ==
    IF no_content(html) THEN None
    ELSE IF upcitemdb_item(Val(html).text).exc # "" THEN None
    ELSE upcitemdb_item(Val(html).text).val

SRC_OPENFOODFACTS == <<"o", "p", "e", "n", "f", "o", "o", "d", "f", "a", "c", "t", "s">>

\* Lines 102-116: the body of the try block after the fetch.
openfoodfacts_product(text) ==
    LET loaded == json_loads(Some(text))
        data == loaded.val
    IN IF loaded.exc # "" THEN loaded
       ELSE IF data.type # "object" THEN Raises("AttributeError")
       ELSE IF ~(/\ dict_get(data, "status").type = "number"
                 /\ dict_get(data, "status").n = 100
                 /\ truthy(dict_get(data, "product")))
       THEN Returns(None)
       ELSE LET product == dict_get(data, "product")
            IN IF product.type # "object" THEN Raises("AttributeError")
               ELSE Returns(Some(CrawlResult(SRC_OPENFOODFACTS,
                        "https://world.openfoodfacts.org/product/850029397809", TRUE,
                        opt_str(py_or(dict_get(product, "product_name"),
                                      dict_get(product, "product_name_en"))),
                        None, None,
                        opt_str(dict_get(product, "generic_name")))))

\* Lines 88-123: every exception of the body is caught.
_search_openfoodfacts(html) ==
    IF no_content(html) THEN None
    ELSE IF openfoodfacts_product(Val(html).text).exc # "" THEN None
    ELSE openfoodfacts_product(Val(html).text).val

\* ---- crawlers/google_shopping.py
\* A results page by its product cards (title and price of each) and the
\* most common price in the text of the page.
ShoppingPage(empty, cards, common_price) ==
    [empty |-> empty, cards |-> cards, common_price |-> common_price]

ShoppingCard(title, price) == [title |-> title, price |-> price]

ShoppingPages ==
    {ShoppingPage(TRUE, <<>>, None), ShoppingPage(FALSE, <<>>, None),
     ShoppingPage(FALSE, <<>>, Some(1600)),
     ShoppingPage(FALSE, <<ShoppingCard(None, None)>>, Some(900)),
     ShoppingPage(FALSE, <<ShoppingCard(Some(TITLE_LINER_1), Some(1600))>>, Some(1600)),
     ShoppingPage(FALSE, <<ShoppingCard(Some(TITLE_LINER_1), None),
                           ShoppingCard(Some(<<>>), Some(900))>>, Some(900))}

GOOGLE_SEARCH_URL == "https://www.google.com/search?tbm=shop&q="

\* Lines 88-143, for the card at position k.
_parse_product_card(card) ==
    IF TruthyStr(card.title) \/ (card.price # None /\ Val(card.price) # 0)
    THEN Some(CrawlResult(SRC_GOOGLE, GOOGLE_SEARCH_URL, FALSE, card.title,
                          card.price, None, None))
    ELSE None

RECURSIVE parsed_cards(_)
parsed_cards(cards) ==
    IF cards = <<>> THEN <<>>
    ELSE (IF _parse_product_card(Head(cards)) = None THEN <<>>
          ELSE <<Val(_parse_product_card(Head(cards)))>>)
         \o parsed_cards(Tail(cards))

\* Lines 55-86 and 145-179.
_parse_shopping_results(page, query) ==
    LET results == parsed_cards(SubSeq(page.cards, 1, IF Len(page.cards) < 5
                                                      THEN Len(page.cards) ELSE 5))
    IN IF results # <<>> THEN results
       ELSE IF page.common_price # None
       THEN <<CrawlResult(SRC_GOOGLE, GOOGLE_SEARCH_URL, FALSE, Some(query),
                          page.common_price, None, None)>>
       ELSE <<>>

\* ---- one call of an adapter's search
AdapterCalls ==
    {<<"sephora", "search_by_upc">>, <<"upc_database", "search_by_upc">>,
     <<"google_shopping", "search_by_upc">>, <<"google_shopping", "search_by_name">>}

\* sephora.py lines 31-38: the search page.
SephoraSearch(outcome, page) ==
    /\ UNCHANGED otherThanAdapter
    /\ cpc = "called" /\ c_call[1] = "sephora"
    /\ LET html == fetch_returns(outcome, page)
       IN IF no_content(html)
          THEN /\ cpc' = "returned"
               /\ c_urls' = <<>>
          ELSE /\ cpc' = "product_pages"
               /\ c_urls' = SubSeq(page.product_urls, 1,
                                   IF Len(page.product_urls) < 2
                                   THEN Len(page.product_urls) ELSE 2)
    /\ UNCHANGED <<c_call, c_results, c_raised>>

\* sephora.py lines 42-45 and 68-74: one product page.
SephoraProduct(outcome, page) ==
    /\ UNCHANGED otherThanAdapter
    /\ cpc = "product_pages" /\ c_urls # <<>>
    /\ LET html == fetch_returns(outcome, page)
           parsed == parse_product_page(page, Head(c_urls), Some(UPC_LINER))
       IN IF no_content(html)
          THEN /\ c_urls' = Tail(c_urls)
               /\ UNCHANGED <<cpc, c_results, c_raised>>
          ELSE IF parsed.exc # ""
          THEN /\ cpc' = "raised"
               /\ c_raised' = Some(parsed.exc)
               /\ UNCHANGED <<c_urls, c_results>>
          ELSE /\ c_results' = Append(c_results, parsed.val)
               /\ c_urls' = Tail(c_urls)
               /\ UNCHANGED <<cpc, c_raised>>
    /\ UNCHANGED c_call

\* sephora.py line 47.
SephoraReturn ==
    /\ UNCHANGED otherThanAdapter
    /\ cpc = "product_pages" /\ c_urls = <<>>
    /\ cpc' = "returned"
    /\ UNCHANGED <<c_call, c_urls, c_results, c_raised>>

\* upc_database.py lines 26-31.
UpcItemDb(outcome, response) ==
    /\ UNCHANGED otherThanAdapter
    /\ cpc = "called" /\ c_call[1] = "upc_database"
    /\ LET result == _search_upcitemdb(fetch_returns(outcome, response))
       IN c_results' = IF result # None THEN Append(c_results, Val(result))
                       ELSE c_results
    /\ cpc' = "openfoodfacts"
    /\ UNCHANGED <<c_call, c_urls, c_raised>>

\* upc_database.py lines 33-38.
OpenFoodFacts(outcome, response) ==
    /\ UNCHANGED otherThanAdapter
    /\ cpc = "openfoodfacts"
    /\ LET result == _search_openfoodfacts(fetch_returns(outcome, response))
       IN c_results' = IF result # None THEN Append(c_results, Val(result))
                       ELSE c_results
    /\ cpc' = "returned"
    /\ UNCHANGED <<c_call, c_urls, c_raised>>

\* google_shopping.py lines 24-53.
GoogleSearch(outcome, page) ==
    /\ UNCHANGED otherThanAdapter
    /\ cpc = "called" /\ c_call[1] = "google_shopping"
    /\ LET html == fetch_returns(outcome, page)
           query == IF c_call[2] = "search_by_upc" THEN UPC_LINER
                    ELSE BRAND_DIBS \o <<" ">> \o NAME_LINER
       IN c_results' = IF no_content(html) THEN <<>>
                       ELSE _parse_shopping_results(page, query)
    /\ cpc' = "returned"
    /\ UNCHANGED <<c_call, c_urls, c_raised>>


(***************************************************************************)
(* Specifications.                                                         *)
(***************************************************************************)
ThrottleStart ==
    /\ now = 0
    /\ last_request = [d \in Domains |-> None]
    /\ sem_value = [d \in Domains |-> max_concurrent(d)]
    /\ fpc = [t \in FetchTasks |-> "idle"]
    /\ fdomain = [t \in FetchTasks |-> NoDomain]
    /\ wake_at = [t \in FetchTasks |-> 0]
    /\ prev_dispatch = [d \in Domains |-> None]
    /\ nfetch = 0

SearchIdle ==
    /\ sclock = 0
    /\ spc = "idle"
    /\ in_brand = None
    /\ in_name = None
    /\ gstart = 0
    /\ utasks = <<IdleTask, IdleTask, IdleTask>>
    /\ ntasks = <<IdleTask, IdleTask>>
    /\ upc_results = <<>>
    /\ name_results = <<>>
    /\ all_results = <<>>
    /\ unique_results = <<>>

SearchStartState ==
    /\ sclock = 0
    /\ spc = "start"
    /\ in_brand \in {None, Some(<<>>), Some(BRAND_DIBS)}
    /\ in_name \in {None, Some(NAME_LINER)}
    /\ gstart = 0
    /\ utasks = <<IdleTask, IdleTask, IdleTask>>
    /\ ntasks = <<IdleTask, IdleTask>>
    /\ upc_results = <<>>
    /\ name_results = <<>>
    /\ all_results = <<>>
    /\ unique_results = <<>>

VerifyIdle ==
    /\ vpc = "idle"
    /\ vargs = None
    /\ vresult = None

VerifyCalled ==
    /\ vpc = "called"
    /\ vargs \in VerifyArgs
    /\ vresult = None

AggregateIdle ==
    /\ apc = "idle"
    /\ a_results = <<>>
    /\ a_input = None
    /\ a_valid = <<>>
    /\ a_verified = <<>>
    /\ a_record = None

AggregateCalled ==
    /\ apc = "called"
    /\ a_results \in UNION {[1..n -> AggCandidates] : n \in 0..MaxResults}
    /\ a_input \in AggInputs
    /\ a_valid = <<>>
    /\ a_verified = <<>>
    /\ a_record = None

EnrichIdle ==
    /\ epc = "idle"
    /\ e_input = None
    /\ e_db = None
    /\ e_available = None
    /\ e_aggregated = None
    /\ e_image_verification = None
    /\ e_output = None
    /\ e_requests = 0

AdapterIdle ==
    /\ cpc = "idle"
    /\ c_call = <<"", "">>
    /\ c_urls = <<>>
    /\ c_results = <<>>
    /\ c_raised = None

AdapterCalled ==
    /\ cpc = "called"
    /\ c_call \in AdapterCalls
    /\ c_urls = <<>>
    /\ c_results = <<>>
    /\ c_raised = None

\* The first request, with nothing stored yet.
EnrichCalled ==
    /\ epc = "called"
    /\ e_input \in EnrichInputs
    /\ e_db = None
    /\ e_available = None
    /\ e_aggregated = None
    /\ e_image_verification = None
    /\ e_output = None
    /\ e_requests = 1

InitThrottle ==
    /\ ThrottleStart /\ SearchIdle /\ VerifyIdle /\ AggregateIdle /\ EnrichIdle /\ AdapterIdle

NextThrottle ==
    \/ \E t \in FetchTasks, d \in Domains : FetchStart(t, d)
    \/ \E t \in FetchTasks : SemaphoreWake(t)
    \/ \E t \in FetchTasks : RateSleepWake(t)
    \/ \E t \in FetchTasks : FetchEnd(t)
    \/ \E t \in FetchTasks : FetchCancel(t)
    \/ Tick

SpecThrottle == InitThrottle /\ [][NextThrottle]_vars

InitSearch ==
    /\ ThrottleStart /\ SearchStartState /\ VerifyIdle /\ AggregateIdle /\ EnrichIdle /\ AdapterIdle

NextSearch ==
    \/ SearchStart
    \/ \E i \in UpcTaskIds \cup NameTaskIds :
          \E r \in UNION {UpcTaskResults(j) : j \in UpcTaskIds}
                   \cup UNION {NameTaskResults(j) : j \in NameTaskIds} :
             TaskDone(i, r)
    \/ \E i \in UpcTaskIds \cup NameTaskIds : TaskRaise(i)
    \/ GatherReturn
    \/ GatherTimeout
    \/ SearchTick

SpecSearch == InitSearch /\ [][NextSearch]_vars

\* The event loop runs every callback that is ready and timers fire when
\* due; wall-clock time advances.  No fairness is assumed for the adapter
\* calls themselves (TaskDone, TaskRaise): an adapter may hang forever.
\* The four steps are enabled in disjoint sets of states, so weak fairness of
\* their disjunction is weak fairness of each.
InitVerify ==
    /\ ThrottleStart /\ SearchIdle /\ VerifyCalled /\ AggregateIdle /\ EnrichIdle /\ AdapterIdle
NextVerify == VerifyMatch
SpecVerify == InitVerify /\ [][NextVerify]_vars

InitAggregate ==
    /\ ThrottleStart /\ SearchIdle /\ VerifyIdle /\ AggregateCalled /\ EnrichIdle /\ AdapterIdle
NextAggregate == GarbageFilter \/ VerifyResults \/ SelectRecord
SpecAggregate == InitAggregate /\ [][NextAggregate]_vars

\* aggregate_crawl_results at line 223, every result of a priced call verified.
PricedVerified ==
    /\ apc = "verified"
    /\ a_results \in UNION {[1..n -> PricedCandidates] : n \in 1..MaxPriced}
    /\ a_input = PricedInput
    /\ a_valid = a_results
    /\ a_verified = [k \in 1..Len(a_results) |->
                        [r |-> a_results[k], v |-> priced_verdict(a_results[k])]]
    /\ a_record = None

InitPrices ==
    /\ ThrottleStart /\ SearchIdle /\ VerifyIdle /\ PricedVerified /\ EnrichIdle /\ AdapterIdle
NextPrices == SelectRecord
SpecPrices == InitPrices /\ [][NextPrices]_vars

\* After line 219, for results without identifier match.
QuotedVerified ==
    /\ apc = "verified"
    /\ a_results \in UNION {[1..n -> QuotedCandidates] : n \in 1..MaxQuoted}
    /\ a_input = PricedInput
    /\ a_valid = a_results
    /\ a_verified = [k \in 1..Len(a_results) |->
                        [r |-> a_results[k], v |-> priced_verdict(a_results[k])]]
    /\ a_record = None

InitQuotes ==
    /\ ThrottleStart /\ SearchIdle /\ VerifyIdle /\ QuotedVerified /\ EnrichIdle
    /\ AdapterIdle
NextQuotes == SelectRecord
SpecQuotes == InitQuotes /\ [][NextQuotes]_vars

\* After line 219, for one result with content and the verdict verify_match
\* gives on it, over the calls of VerifyArgs.
JudgedVerified ==
    /\ apc = "verified"
    /\ \E args \in VerifyArgs :
           /\ a_input = [input_upc |-> UPC_LINER, input_brand |-> args.input_brand,
                         input_name |-> args.input_name,
                         input_size |-> normalize_null(args.input_size),
                         input_color |-> normalize_null(args.input_color)]
           /\ a_results = <<CrawlResult(SRC_SEPHORA, "https://www.sephora.com/product/p1",
                                        args.found_upc_match, args.found_title,
                                        Some(1600), None, args.found_description)>>
    /\ a_valid = a_results
    /\ a_valid = valid_results_of(a_results, a_input.input_upc)
    /\ a_verified = verify_results(a_valid, a_input.input_brand, a_input.input_name,
                                   a_input.input_size, a_input.input_color)
    /\ a_record = None

InitJudged ==
    /\ ThrottleStart /\ SearchIdle /\ VerifyIdle /\ JudgedVerified /\ EnrichIdle
    /\ AdapterIdle
NextJudged == SelectRecord
SpecJudged == InitJudged /\ [][NextJudged]_vars

\* After line 219, for results of every verdict.
ShuffledVerified ==
    /\ apc = "verified"
    /\ a_results \in UNION {[1..n -> ShuffledCandidates] : n \in 1..MaxShuffled}
    /\ a_input = PricedInput
    /\ a_valid = a_results
    /\ a_verified = [k \in 1..Len(a_results) |->
                        [r |-> a_results[k], v |-> priced_verdict(a_results[k])]]
    /\ a_record = None

InitShuffled ==
    /\ ThrottleStart /\ SearchIdle /\ VerifyIdle /\ ShuffledVerified /\ EnrichIdle
    /\ AdapterIdle
NextShuffled == SelectRecord
SpecShuffled == InitShuffled /\ [][NextShuffled]_vars

InitEnrich ==
    /\ ThrottleStart /\ SearchIdle /\ VerifyIdle /\ AggregateIdle /\ EnrichCalled /\ AdapterIdle
NextEnrich ==
    \/ CacheLookup
    \/ \E crawl_results \in CrawlLists : CrawlAndAggregate(crawl_results)
    \/ \E fetched \in FetchedImages : FetchImage(fetched)
    \/ \E retailer_prices \in RetailerQuotes : PriceFloor(retailer_prices)
    \/ \E healthy \in BOOLEAN, service \in ImageServiceOutcomes :
           VerifyImage(healthy, service)
    \/ SaveAndReturn
    \/ NextRequest
SpecEnrich == InitEnrich /\ [][NextEnrich]_vars

InitAdapter ==
    /\ ThrottleStart /\ SearchIdle /\ VerifyIdle /\ AggregateIdle /\ EnrichIdle
    /\ AdapterCalled

NextAdapter ==
    \/ \E outcome \in FetchOutcomes, page \in SephoraSearchPages :
           SephoraSearch(outcome, page)
    \/ \E outcome \in FetchOutcomes, page \in SephoraProductPages :
           SephoraProduct(outcome, page)
    \/ SephoraReturn
    \/ \E outcome \in FetchOutcomes, response \in UpcItemDbResponses :
           UpcItemDb(outcome, response)
    \/ \E outcome \in FetchOutcomes, response \in OpenFoodFactsResponses :
           OpenFoodFacts(outcome, response)
    \/ \E outcome \in FetchOutcomes, page \in ShoppingPages :
           GoogleSearch(outcome, page)

SpecAdapter == InitAdapter /\ [][NextAdapter]_vars

LoopStep == SearchStart \/ GatherReturn \/ GatherTimeout \/ SearchTick
FairSearch == SpecSearch /\ WF_vars(LoopStep)

(***************************************************************************)
(* Properties of the rate limiter.                                         *)
(***************************************************************************)
\* The fetch tasks that have returned from acquire() on domain d and have not
\* yet called release().
InFlight(d) == {t \in FetchTasks : fpc[t] = "holding" /\ fdomain[t] = d}

\* C3: for every domain, the number of callers that have returned from
\* acquire() and not yet called release() never exceeds the domain's
\* max_concurrent.
C3_ConcurrencyBound ==
    \A d \in Domains : Cardinality(InFlight(d)) <= max_concurrent(d)

\* A domain at its concurrency cap while another caller is blocked in
\* semaphore.acquire() on it.
C3_Witness ==
    \E d \in Domains :
        /\ Cardinality(InFlight(d)) = max_concurrent(d)
        /\ \E t \in FetchTasks : fpc[t] = "sem_wait" /\ fdomain[t] = d

\* C4: any two successive returns from acquire() on one domain are at least
\* 1/requests_per_second seconds apart.
C4_MinIntervalBetweenDispatches ==
    \A d \in Domains :
        IsSome(prev_dispatch[d]) =>
            Val(last_request[d]) - Val(prev_dispatch[d]) >= min_interval(d)

(***************************************************************************)
(* Properties of search_all.                                               *)
(***************************************************************************)
\* The candidates returned by the adapter calls of one gather that completed.
CompletedCandidates(ts) ==
    UNION {Elems(ts[i].res) : i \in {j \in DOMAIN ts : ts[j].st = "done"}}

TimedOut(ts) == \E i \in DOMAIN ts : ts[i].st = "cancelled"
SomeRaised(ts) == \E i \in DOMAIN ts : ts[i].st = "raised"

\* C5: in a fan-out where adapter calls raise and the others complete before
\* the deadline, search_all does not raise and the list it builds before
\* dedup holds every candidate returned by the adapters that succeeded.
C5_AdapterFailureSwallowed ==
    /\ spc # "raised"
    /\ (spc = "returned" /\ ~TimedOut(utasks) /\ ~TimedOut(ntasks)) =>
          CompletedCandidates(utasks) \cup CompletedCandidates(ntasks)
             \subseteq Elems(upc_results \o name_results)

\* search_all has returned from a fan-out in which an adapter raised, another
\* returned candidates, and no deadline expired.
C5_Witness ==
    /\ spc = "returned"
    /\ ~TimedOut(utasks) /\ ~TimedOut(ntasks)
    /\ SomeRaised(utasks)
    /\ CompletedCandidates(utasks) # {}

\* C6: when the deadline expires with an adapter still running, the
\* candidates of every adapter that had completed before the deadline are
\* returned; only those of the unfinished adapters are dropped.
C6_TimeoutKeepsCompleted ==
    spc = "returned" =>
        /\ CompletedCandidates(utasks) \subseteq Elems(upc_results)
        /\ CompletedCandidates(ntasks) \subseteq Elems(name_results)

\* C7: search_all always eventually returns, even if an adapter call never
\* completes.
C7_SearchAllReturns == <>(spc = "returned")

\* search_all has returned although an adapter call never completed: it was
\* abandoned at the deadline.
C7_Witness == spc = "returned" /\ (TimedOut(utasks) \/ TimedOut(ntasks))

\* C8: with brand and name supplied, the name searches run concurrently with
\* the identifier searches under one overall deadline, so the whole fan-out
\* is over within a single deadline period.
C8_SingleDeadlinePeriod ==
    (Truthy(in_brand) /\ Truthy(in_name) /\ spc = "returned") =>
        sclock <= GATHER_TIMEOUT

\* The source name with any parenthetical suffix removed: the text before the
\* first "(" (all of it when there is none), without surrounding whitespace.
BaseSourceName(src) ==
    LET opens == {k \in DOMAIN src : src[k] = "("}
        cutAt == IF opens = {} THEN Len(src) + 1
                 ELSE CHOOSE k \in opens : \A m \in opens : k <= m
        pre == SubSeq(src, 1, cutAt - 1)
        inked == {k \in DOMAIN pre : ~IsSpace(pre[k])}
    IN IF inked = {} THEN <<>>
       ELSE SubSeq(pre, CHOOSE k \in inked : \A m \in inked : k <= m,
                        CHOOSE k \in inked : \A m \in inked : k >= m)

SameKey(a, b) ==
    BaseSourceName(a.source) = BaseSourceName(b.source) /\ a.price = b.price

\* C9: the result of search_all is the identifier-search candidates followed
\* by the name-search candidates, keeping only the first candidate of every
\* (source name without parenthetical, price) key, in scan order.
C9_DedupFirstOccurrenceInOrder ==
    spc = "returned" =>
        LET all == upc_results \o name_results
            kept == {i \in DOMAIN all :
                        \A j \in 1..(i - 1) : ~SameKey(all[j], all[i])}
            rank(i) == Cardinality({j \in kept : j <= i})
        IN /\ Len(unique_results) = Cardinality(kept)
           /\ \A i \in kept : unique_results[rank(i)] = all[i]

\* search_all has returned a list in which two sellers of one source at one
\* price were collapsed, a name-search candidate was dropped as a duplicate
\* of an identifier-search candidate, and two different sources with the same
\* price were both kept.
C9_Witness ==
    /\ spc = "returned"
    /\ cand_google_x \in Elems(unique_results)
    /\ cand_google_y \in Elems(upc_results)
    /\ cand_google_y \notin Elems(unique_results)
    /\ cand_google_z \in Elems(name_results)
    /\ cand_google_z \notin Elems(unique_results)
    /\ cand_sephora \in Elems(unique_results)
    /\ cand_google_plain \in Elems(unique_results)


\* C1: every verdict of verify_match has 0 <= confidence <= 100, and an exact
\* match has confidence >= 80.
C1_VerdictConfidenceRange ==
    vpc = "returned" =>
        /\ Val(vresult).confidence >= 0
        /\ Val(vresult).confidence <= 100
        /\ Val(vresult).is_exact_match => Val(vresult).confidence >= 80

\* An exact match found from the attributes alone: no UPC match, text present.
C1_Witness ==
    /\ vpc = "returned"
    /\ ~vargs.found_upc_match
    /\ Truthy(vargs.found_title)
    /\ Val(vresult).is_exact_match
    /\ Val(vresult).confidence >= 80


\* The candidate of the call has usable text: its title or its description
\* holds a character that is not white space.
UsableText ==
    \/ (vargs.found_title # None
        /\ \E k \in 1..Len(Val(vargs.found_title)) : ~IsSpace(Val(vargs.found_title)[k]))
    \/ (vargs.found_description # None
        /\ \E k \in 1..Len(Val(vargs.found_description)) :
               ~IsSpace(Val(vargs.found_description)[k]))

Listed(mismatches, what) == \E k \in 1..Len(mismatches) : mismatches[k].what = what

\* C13: for a candidate with usable text whose identifier matched and whose
\* brand matches, the verdict is an exact match, with confidence 90 if size
\* and color both matched and 80 otherwise; a size or color mismatch is listed
\* in mismatches.
C13_UpcAndBrandAlwaysExact ==
    (vpc = "returned" /\ UsableText /\ vargs.found_upc_match
        /\ Val(vresult).brand_match) =>
        /\ Val(vresult).is_exact_match
        /\ Val(vresult).confidence =
               (IF Val(vresult).size_match /\ Val(vresult).color_match THEN 90 ELSE 80)
        /\ ~Val(vresult).size_match => Listed(Val(vresult).mismatches, "Size mismatch")
        /\ ~Val(vresult).color_match =>
               Listed(Val(vresult).mismatches, "Color/shade mismatch")

\* An identifier-matched candidate of the right brand whose size and shade
\* both disagree with the input: exact all the same, at 80.
C13_Witness ==
    /\ vpc = "returned" /\ UsableText /\ vargs.found_upc_match
    /\ Val(vresult).brand_match
    /\ ~Val(vresult).size_match /\ ~Val(vresult).color_match
    /\ Val(vresult).is_exact_match /\ Val(vresult).confidence = 80
    /\ Len(Val(vresult).mismatches) = 2

\* The other case of C13: size and color both matched, confidence 90.
C13_WitnessAllMatched ==
    /\ vpc = "returned" /\ UsableText /\ vargs.found_upc_match
    /\ Val(vresult).brand_match /\ vargs.input_size # None /\ vargs.input_color # None
    /\ Val(vresult).size_match /\ Val(vresult).color_match
    /\ Val(vresult).confidence = 90


(***************************************************************************)
(* Properties of aggregate_crawl_results.                                  *)
(***************************************************************************)
\* A result without content: its trimmed title is empty or is the identifier,
\* or its trimmed description is the identifier and its title is shorter than
\* 10 characters.
GarbageCandidate(r, upc) ==
    LET title == Strip(IF r.title = None THEN <<>> ELSE Val(r.title))
        desc == Strip(IF r.description = None THEN <<>> ELSE Val(r.description))
    IN \/ title = <<>>
       \/ title = upc
       \/ (desc = upc /\ Len(title) < 10)

\* The results of the call that have content, in order.
WithContent == SelectSeq(a_results, LAMBDA r : ~GarbageCandidate(r, a_input.input_upc))

\* C10: a result without content is never handed to the verifier, and the
\* msrp, image and description of the returned record are those of the call
\* with the results without content taken out of the list.
C10_GarbageNeverVerifiedNorUsed ==
    /\ \A k \in 1..Len(a_valid) : ~GarbageCandidate(a_valid[k], a_input.input_upc)
    /\ \A k \in 1..Len(a_verified) : ~GarbageCandidate(a_verified[k].r, a_input.input_upc)
    /\ apc = "returned" =>
           LET clean == aggregate_crawl_results(WithContent, a_input.input_upc,
                            a_input.input_brand, a_input.input_name,
                            a_input.input_size, a_input.input_color)
           IN /\ Val(a_record).msrp = clean.msrp
              /\ Val(a_record).image_url = clean.image_url
              /\ Val(a_record).description = clean.description

\* A call whose first result has no content but carries a price and an image,
\* followed by a result with content: the record is built from the second.
C10_Witness ==
    /\ apc = "returned"
    /\ Len(a_results) >= 2
    /\ GarbageCandidate(a_results[1], a_input.input_upc)
    /\ a_results[1].price # None /\ a_results[1].image_url # None
    /\ ~GarbageCandidate(a_results[2], a_input.input_upc)
    /\ Len(a_verified) >= 1
    /\ Val(a_record).msrp # None
    /\ Val(a_record).msrp # a_results[1].price


\* xs[i..] can be read off ys[j..] from left to right, skipping entries of ys.
RECURSIVE IsSubsequenceFrom(_, _, _, _)
IsSubsequenceFrom(xs, i, ys, j) ==
    IF i > Len(xs) THEN TRUE
    ELSE IF j > Len(ys) THEN FALSE
    ELSE IF xs[i] = ys[j] THEN IsSubsequenceFrom(xs, i + 1, ys, j + 1)
    ELSE IsSubsequenceFrom(xs, i, ys, j + 1)

\* The {name, url, identifierMatched} entry of a result.
EntryOf(r) == [name |-> r.source, url |-> r.url, found_upc |-> r.found_upc]

\* The entries of the results with content, in descending order of the
\* confidence of their verdicts (the order in which they are aggregated).
SurvivorEntries ==
    LET sorted == sort_by_confidence(a_verified)
    IN [k \in 1..Len(sorted) |-> EntryOf(sorted[k].r)]

\* C11: every entry of the sources of the returned record is the entry of a
\* result that has content, the entries are in the order of aggregation, and
\* no result without content appears in sources, also when every result is
\* without content.
C11_SourcesOnlySurvivors ==
    apc = "returned" =>
        /\ \A k \in 1..Len(Val(a_record).sources) :
               \E j \in 1..Len(WithContent) :
                   Val(a_record).sources[k] = EntryOf(WithContent[j])
        /\ IsSubsequenceFrom(Val(a_record).sources, 1, SurvivorEntries, 1)

\* The part of C11 that holds: when some result has content, sources holds
\* only entries of results with content, in the order of aggregation.
C11_SourcesWhenSomeSurvive ==
    (apc = "returned" /\ WithContent # <<>>) =>
        /\ \A k \in 1..Len(Val(a_record).sources) :
               \E j \in 1..Len(WithContent) :
                   Val(a_record).sources[k] = EntryOf(WithContent[j])
        /\ IsSubsequenceFrom(Val(a_record).sources, 1, SurvivorEntries, 1)


\* C19: a call without results, or whose results are all without content,
\* returns a record of confidence 0 with a reasoning text and without msrp,
\* image, description and verification; a call without results gives the
\* reasoning "No results found from any source" and no sources.
C19_NothingToAggregate ==
    (apc = "returned" /\ WithContent = <<>>) =>
        /\ Val(a_record).confidence = 0
        /\ Val(a_record).reasoning.text
               \in {"No results found from any source",
                    "No valid results found (only garbage data)"}
        /\ Val(a_record).msrp = None
        /\ Val(a_record).image_url = None
        /\ Val(a_record).description = None
        /\ Val(a_record).verification = None
        /\ a_results = <<>> =>
               /\ Val(a_record).reasoning.text = "No results found from any source"
               /\ Val(a_record).sources = <<>>

\* A call whose results all lack content, the first carrying a price and an
\* image.
C19_Witness ==
    /\ apc = "returned"
    /\ a_results # <<>>
    /\ WithContent = <<>>
    /\ a_results[1].price # None /\ a_results[1].image_url # None
    /\ Val(a_record).confidence = 0
    /\ Val(a_record).msrp = None

\* A call without results.
C19_WitnessEmpty ==
    /\ apc = "returned"
    /\ a_results = <<>>
    /\ Val(a_record).sources = <<>>


(***************************************************************************)
(* Properties of enrich_product.                                           *)
(***************************************************************************)
\* C2: the record enrich_product returns has a confidence_score in [0,100],
\* and when its verification says exact match the confidence_score is at
\* least 80.
C2_OutputConfidenceRange ==
    epc = "returned" =>
        LET out == Val(e_output)
        IN /\ out.confidence_score >= 0
           /\ out.confidence_score <= 100
           /\ (out.verification # None /\ Val(out.verification).is_exact_match)
                  => out.confidence_score >= 80

\* The part of C2 that holds: the confidence_score is in [0,100].
C2_OutputConfidenceBounded ==
    epc = "returned" =>
        /\ Val(e_output).confidence_score >= 0
        /\ Val(e_output).confidence_score <= 100


(***************************************************************************)
(* Properties of the price selection.                                      *)
(***************************************************************************)
\* C12: the msrp of the returned record is absent or strictly positive.
C12_MsrpAbsentOrPositive ==
    apc = "returned" =>
        (Val(a_record).msrp = None \/ Val(Val(a_record).msrp) > 0)


\* The positions in a_verified of the set that is aggregated: the exact
\* matches if there are any, else the verdicts of confidence 70 or more.
ExactPositions == {k \in 1..Len(a_verified) : a_verified[k].v.is_exact_match}
NearPositions == {k \in 1..Len(a_verified) : a_verified[k].v.confidence >= 70}
AggregatedPositions == IF ExactPositions # {} THEN ExactPositions ELSE NearPositions

\* The positive prices of the aggregated set, with and without identifier match.
IdentifierPrices ==
    {Val(a_verified[k].r.price) : k \in {j \in AggregatedPositions :
        /\ a_verified[j].r.found_upc
        /\ a_verified[j].r.price # None
        /\ Val(a_verified[j].r.price) > 0}}
OtherPrices ==
    {Val(a_verified[k].r.price) : k \in {j \in AggregatedPositions :
        /\ ~a_verified[j].r.found_upc
        /\ a_verified[j].r.price # None
        /\ Val(a_verified[j].r.price) > 0}}

\* C14: when a result of the aggregated set has its identifier matched and a
\* positive price, the msrp is the highest such price, whatever the prices of
\* the results without identifier match.
C14_IdentifierPriceDominates ==
    (apc = "returned" /\ IdentifierPrices # {}) =>
        /\ Val(a_record).msrp # None
        /\ Val(Val(a_record).msrp) \in IdentifierPrices
        /\ \A p \in IdentifierPrices : p <= Val(Val(a_record).msrp)

\* An identifier-matched result at 10.00 together with an exact match without
\* identifier at 90.00: the msrp is 10.00.
C14_Witness ==
    /\ apc = "returned"
    /\ IdentifierPrices = {1000}
    /\ 9000 \in OtherPrices
    /\ Val(a_record).msrp = Some(1000)


\* The positions of the aggregated set whose results have a positive price
\* and no identifier match, and the k-th smallest of their prices.
OtherPositions ==
    {j \in AggregatedPositions :
        /\ ~a_verified[j].r.found_upc
        /\ a_verified[j].r.price # None
        /\ Val(a_verified[j].r.price) > 0}
KthOtherPrice(k) ==
    CHOOSE p \in OtherPrices :
        /\ Cardinality({j \in OtherPositions : Val(a_verified[j].r.price) < p}) < k
        /\ Cardinality({j \in OtherPositions : Val(a_verified[j].r.price) <= p}) >= k

\* Twice the median of those prices: the middle one, or the mean of the two
\* middle ones when their number is even.
TwiceMedianOtherPrice ==
    LET n == Cardinality(OtherPositions)
    IN IF n % 2 = 1 THEN 2 * KthOtherPrice((n + 1) \div 2)
       ELSE KthOtherPrice(n \div 2) + KthOtherPrice((n \div 2) + 1)

\* C15: when no result of the aggregated set has an identifier-matched
\* positive price, the msrp is one of the positive prices that do not exceed
\* 3 times their median, the median of an even number of prices being the mean
\* of the two middle ones.
C15_OutliersAboveThriceMedianExcluded ==
    (apc = "returned" /\ IdentifierPrices = {} /\ OtherPositions # {}) =>
        /\ Val(a_record).msrp # None
        /\ Val(Val(a_record).msrp) \in OtherPrices
        /\ 2 * Val(Val(a_record).msrp) <= 3 * TwiceMedianOtherPrice

\* The example of the spec: 15, 16, 14 and 90 give an msrp among 14, 15, 16.
C15_SpecExample ==
    (apc = "returned" /\ Len(a_verified) = 4
        /\ \A k \in 1..4 : a_verified[k].r.price = Some(<<1500, 1600, 1400, 9000>>[k])
        /\ ExactPositions = 1..4 /\ IdentifierPrices = {}) =>
        Val(a_record).msrp \in {Some(1400), Some(1500), Some(1600)}


(***************************************************************************)
(* Properties of the reporting tier.                                       *)
(***************************************************************************)
\* The sources of the returned record are the entries of the results at the
\* given positions of a_verified, each as often as it occurs there.
SourcesAreEntriesAt(positions) ==
    LET sources == Val(a_record).sources
    IN /\ Len(sources) = Cardinality(positions)
       /\ \A j \in positions :
              Cardinality({k \in 1..Len(sources) : sources[k] = EntryOf(a_verified[j].r)})
              = Cardinality({i \in positions :
                                EntryOf(a_verified[i].r) = EntryOf(a_verified[j].r)})

\* The positions of the verdicts of highest confidence.
BestPositions ==
    {j \in 1..Len(a_verified) :
        \A i \in 1..Len(a_verified) :
            a_verified[i].v.confidence <= a_verified[j].v.confidence}

\* C16: the record reports the exact matches, with is_exact_match true, if
\* there are any; else the verdicts of confidence 70 or more, with
\* is_exact_match false, if there are any; else one result of highest
\* confidence as a failure record with that verdict's confidence and
\* mismatches and is_exact_match false; else the zero-confidence record.
C16_TierFromVerdicts ==
    apc = "returned" =>
        LET rec == Val(a_record)
        IN IF ExactPositions # {}
           THEN /\ Val(rec.verification).is_exact_match
                /\ SourcesAreEntriesAt(ExactPositions)
           ELSE IF NearPositions # {}
           THEN /\ ~Val(rec.verification).is_exact_match
                /\ SourcesAreEntriesAt(NearPositions)
           ELSE IF a_verified # <<>>
           THEN /\ ~Val(rec.verification).is_exact_match
                /\ \E j \in BestPositions :
                       /\ rec.sources = <<EntryOf(a_verified[j].r)>>
                       /\ rec.confidence = a_verified[j].v.confidence
                       /\ Val(rec.verification).mismatches = a_verified[j].v.mismatches
           ELSE /\ rec.confidence = 0
                /\ rec.verification = None
                /\ rec.msrp = None

\* No exact match, and the verdict of highest confidence is not the first:
\* the failure record is that of the better verdict.
C16_Witness ==
    /\ apc = "returned"
    /\ Len(a_verified) >= 2
    /\ ExactPositions = {} /\ NearPositions = {}
    /\ a_verified[1].v.confidence < a_verified[2].v.confidence
    /\ Val(a_record).confidence = a_verified[2].v.confidence
    /\ Val(a_record).sources = <<EntryOf(a_verified[2].r)>>

\* Exact matches among failed verdicts: only the exact ones are reported.
C16_WitnessExactTier ==
    /\ apc = "returned"
    /\ ExactPositions # {} /\ ExactPositions # 1..Len(a_verified)
    /\ Val(Val(a_record).verification).is_exact_match
    /\ Len(Val(a_record).sources) = Cardinality(ExactPositions)

\* No verdict that is not an exact match has a confidence of 70 or more: the
\* tier of the near matches is never entered.
NearTierNeverEntered ==
    \A k \in 1..Len(a_verified) :
        a_verified[k].v.confidence >= 70 => a_verified[k].v.is_exact_match


(***************************************************************************)
(* Properties of the final confidence.                                     *)
(***************************************************************************)
\* No two results of the call have the same source name (without its
\* parenthetical) and the same price: what search_all's deduplication leaves.
Deduplicated ==
    \A i, j \in 1..Len(a_verified) :
        (i # j /\ a_verified[i].r.price = a_verified[j].r.price)
            => BaseSourceName(a_verified[i].r.source) # BaseSourceName(a_verified[j].r.source)

\* The sources the exact matches come from.
ExactSources == {a_verified[k].r.source : k \in ExactPositions}

\* C17: the confidence of a record built from exact matches is 95 if the
\* exact matches come from at least two sources and 85 if they all come from
\* one; that of a record built from near matches is the confidence of the
\* best verdict.
C17_ConfidenceBySourceCount ==
    (apc = "returned" /\ Deduplicated) =>
        /\ ExactPositions # {} =>
               Val(a_record).confidence =
                   (IF Cardinality(ExactSources) >= 2 THEN 95 ELSE 85)
        /\ (ExactPositions = {} /\ NearPositions # {}) =>
               \E j \in BestPositions :
                   Val(a_record).confidence = a_verified[j].v.confidence

\* What the code does: 95 for two or more exact matches, 85 for one.
C17_ConfidenceByResultCount ==
    (apc = "returned" /\ ExactPositions # {}) =>
        Val(a_record).confidence =
            (IF Cardinality(ExactPositions) >= 2 THEN 95 ELSE 85)


(***************************************************************************)
(* Scenario A.                                                             *)
(***************************************************************************)
\* Two results from two sources, both with the identifier matched and the
\* brand in the title, one titled with shade #1 (the input's) and one with
\* shade #2, in either order.
ScenarioA ==
    /\ apc = "returned"
    /\ Len(a_verified) = 2
    /\ \A k \in 1..2 : a_verified[k].r.found_upc /\ a_verified[k].v.brand_match
    /\ a_verified[1].r.source # a_verified[2].r.source
    /\ {a_verified[1].r.title, a_verified[2].r.title}
           = {Some(TITLE_LINER_1), Some(TITLE_LINER_2)}
    /\ a_input.input_color = Some(COLOR_SHADE_1)

\* The verdict of the result of scenario A that is titled with shade #2.
ShadeTwoVerdict ==
    a_verified[CHOOSE k \in 1..2 : a_verified[k].r.title = Some(TITLE_LINER_2)].v

\* C18 as stated: in scenario A the record is an exact match of confidence
\* 80 with the shade mismatch in its mismatches.
C18_ScenarioA_AsStated ==
    ScenarioA =>
        /\ Val(Val(a_record).verification).is_exact_match
        /\ Val(a_record).confidence = 80
        /\ Listed(Val(Val(a_record).verification).mismatches, "Color/shade mismatch")

\* C18 amended: in scenario A the record is an exact match of confidence 95
\* (two sources agree exactly) and its mismatches, those of the best verdict,
\* are empty; the shade mismatch is listed in the verdict of the result with
\* shade #2, which is an exact match of confidence 80.
C18_ScenarioA ==
    ScenarioA =>
        /\ Val(Val(a_record).verification).is_exact_match
        /\ Val(a_record).confidence = 95
        /\ Val(Val(a_record).verification).mismatches = <<>>
        /\ ShadeTwoVerdict.is_exact_match
        /\ ShadeTwoVerdict.confidence = 80
        /\ Listed(ShadeTwoVerdict.mismatches, "Color/shade mismatch")

\* Scenario A with the result of shade #2 first in the list.
C18_Witness ==
    /\ ScenarioA
    /\ a_verified[1].r.title = Some(TITLE_LINER_2)
    /\ Val(a_record).confidence = 95


(***************************************************************************)
(* Properties of the cache save.                                           *)
(***************************************************************************)
\* C20: the stored row changes only in the step that returns a record whose
\* confidence_score (the confidence after the image adjustment) is at least
\* 85 and whose verification is an exact match.
C20_SaveOnlyWhenConfidentAndExact ==
    [][(e_db' # e_db) =>
          /\ epc = "finish"
          /\ Val(e_output').confidence_score >= 85
          /\ Val(e_output').verification # None
          /\ Val(Val(e_output').verification).is_exact_match]_vars

\* A request that returned an exact match whose confidence the image
\* adjustment took below 85, the store still empty; and one that was saved.
C20_Witness ==
    /\ epc = "returned"
    /\ e_db = None
    /\ Val(e_output).verification # None
    /\ Val(Val(e_output).verification).is_exact_match
    /\ Val(e_aggregated).confidence >= 85
    /\ Val(e_output).confidence_score < 85

C20_WitnessSaved ==
    /\ epc = "returned"
    /\ e_requests = 1
    /\ e_db # None
    /\ Val(e_output).confidence_score >= 85


(***************************************************************************)
(* Properties of the image verification and of the price floor.            *)
(***************************************************************************)
\* The image verification of the request did not come from an answer of the
\* image service: the service was unavailable, answered with an error status,
\* timed out or failed.
OracleFailed ==
    /\ e_image_verification # None
    /\ Val(e_image_verification).reasoning
           \in {"Image verification service not available", "Image service error",
                "Image verification timed out", "Image verification failed"}

\* C21: when the image service is unavailable, or its call fails or times
\* out, the confidence_score of the returned record is the confidence of the
\* aggregation.
C21_OracleFailureLeavesConfidence ==
    (epc = "returned" /\ OracleFailed) =>
        Val(e_output).confidence_score = Val(e_aggregated).confidence

\* The part of C21 that holds: the request completes with a record, and
\* without an image there is no adjustment.
C21_NoImageNoAdjustment ==
    (epc = "returned" /\ e_aggregated # None /\ e_image_verification = None) =>
        Val(e_output).confidence_score = Val(e_aggregated).confidence


\* The positive prices of the candidates with the identifier matched that are
\* among the sources of the aggregation.
ConfirmedSourcePrices ==
    {Val(c.price) : c \in {d \in EnrichCandidates :
        /\ d.found_upc
        /\ d.price # None /\ Val(d.price) > 0
        /\ \E k \in 1..Len(Val(e_aggregated).sources) :
               Val(e_aggregated).sources[k].url = d.url}}

\* The msrp of the aggregation is an identifier-confirmed price.
MsrpIsConfirmedPrice ==
    /\ Val(e_aggregated).msrp # None
    /\ Val(Val(e_aggregated).msrp) \in ConfirmedSourcePrices

\* The minimum expected price of the product of the request.
FloorOfRequest == get_min_expected_price(e_input.name)

\* C22: the price-floor step leaves an msrp that is an identifier-confirmed
\* price as it is, also below the floor; it changes the msrp only when no
\* identifier-confirmed price was among the sources and the msrp was below
\* the floor, and then the new msrp is at least the floor.
C22_FloorSparesConfirmedPrice ==
    [][epc = "price_floor" =>
          /\ MsrpIsConfirmedPrice => e_aggregated' = e_aggregated
          /\ (Val(e_aggregated').msrp # Val(e_aggregated).msrp) =>
                 /\ ConfirmedSourcePrices = {}
                 /\ Val(e_aggregated).msrp # None
                 /\ Val(Val(e_aggregated).msrp) < FloorOfRequest
                 /\ Val(Val(e_aggregated').msrp) >= FloorOfRequest]_vars

\* An identifier-confirmed msrp below the floor that went through the step.
C22_Witness ==
    /\ epc = "verify_image"
    /\ MsrpIsConfirmedPrice
    /\ Val(Val(e_aggregated).msrp) < FloorOfRequest

\* An msrp that the step raised to a retailer's quote above the floor.
C22_WitnessRaised ==
    /\ epc = "verify_image"
    /\ ConfirmedSourcePrices = {}
    /\ Val(e_aggregated).msrp = Some(2200)


\* C23: no search of an adapter is left by an exception, whatever the
\* transport gives and whatever the payload holds.
C23_AdapterSearchNeverRaises == c_raised = None

\* The searches of the UPC database and of google shopping are never left
\* by an exception.
OnlySephoraRaises == c_raised # None => c_call[1] = "sephora"


(***************************************************************************)
(* Properties of the attribute path of verify_match.                       *)
(***************************************************************************)
\* An optional input attribute that is declared: there, and none of the
\* spellings of nothing.
Declared(attribute) ==
    /\ attribute # None
    /\ Val(attribute) \notin {<<>>, <<"n", "u", "l", "l">>, <<"N", "o", "n", "e">>}

\* +20 for a declared attribute that matched, -30 for one that did not,
\* +10 for an attribute that is not declared.
AttributeTerm(attribute, matched) ==
    IF Declared(attribute) THEN (IF matched THEN 20 ELSE -30) ELSE 10

Clamp(x) == IF x < 0 THEN 0 ELSE IF x > 100 THEN 100 ELSE x

\* C24: for a candidate with usable text whose identifier did not match or
\* whose brand did not match, the verdict is exact iff brand, size and color
\* all matched, and the confidence is 20 without the brand, otherwise 60 plus
\* the terms of size and of color, clamped to [0,100].
C24_AttributePathVerdict ==
    (vpc = "returned" /\ UsableText
        /\ (~vargs.found_upc_match \/ ~Val(vresult).brand_match)) =>
        /\ Val(vresult).is_exact_match =
               (Val(vresult).brand_match /\ Val(vresult).size_match
                    /\ Val(vresult).color_match)
        /\ Val(vresult).confidence =
               IF ~Val(vresult).brand_match THEN 20
               ELSE Clamp(60 + AttributeTerm(vargs.input_size, Val(vresult).size_match)
                             + AttributeTerm(vargs.input_color, Val(vresult).color_match))

\* Brand matched, declared size mismatched, color not declared: 60 - 30 + 10.
C24_Witness ==
    /\ vpc = "returned" /\ UsableText /\ ~vargs.found_upc_match
    /\ Val(vresult).brand_match
    /\ Declared(vargs.input_size) /\ ~Val(vresult).size_match
    /\ ~Declared(vargs.input_color)
    /\ ~Val(vresult).is_exact_match
    /\ Val(vresult).confidence = 40

\* The identifier matched but the brand did not: 20, not exact.
C24_WitnessUpcWithoutBrand ==
    /\ vpc = "returned" /\ UsableText /\ vargs.found_upc_match
    /\ ~Val(vresult).brand_match
    /\ Val(vresult).confidence = 20
    /\ ~Val(vresult).is_exact_match

\* Both attributes declared and mismatched: 60 - 30 - 30 = 0.
C24_WitnessBothMismatched ==
    /\ vpc = "returned" /\ UsableText /\ ~vargs.found_upc_match
    /\ Val(vresult).brand_match
    /\ Declared(vargs.input_size) /\ ~Val(vresult).size_match
    /\ Declared(vargs.input_color) /\ ~Val(vresult).color_match
    /\ Val(vresult).confidence = 0


\* What the extractor yields for the text of the candidate of the call.
CandidateAttributes ==
    extract_attributes(Strip(OrEmpty(vargs.found_title) \o <<" ">>
                                 \o OrEmpty(vargs.found_description)))

\* What the extractor yields for the declared size alone.
DeclaredSizeAttributes == extract_attributes(Val(vargs.input_size))

\* C25: with a declared size and usable text, sizes that are both normalized
\* match iff they are within 5%; otherwise raw sizes on both sides match iff
\* their digits are equal; and a declared size never matches a candidate
\* whose text yields no size.
C25_DeclaredSizeNeedsCandidateSize ==
    (vpc = "returned" /\ UsableText /\ Declared(vargs.input_size)) =>
        /\ (TruthyFloat(DeclaredSizeAttributes.size_normalized)
                /\ TruthyFloat(CandidateAttributes.size_normalized)) =>
               (Val(vresult).size_match
                    <=> within_tolerance(Val(DeclaredSizeAttributes.size_normalized),
                                         Val(CandidateAttributes.size_normalized)))
        /\ (Truthy(DeclaredSizeAttributes.size) /\ Truthy(CandidateAttributes.size)
                /\ ~(TruthyFloat(DeclaredSizeAttributes.size_normalized)
                        /\ TruthyFloat(CandidateAttributes.size_normalized))) =>
               (Val(vresult).size_match
                    <=> DigitsAndDots(Val(DeclaredSizeAttributes.size))
                            = DigitsAndDots(Val(CandidateAttributes.size)))
        /\ ~Truthy(CandidateAttributes.size) => ~Val(vresult).size_match

\* The part of C25 that holds: a declared size in which the extractor finds a
\* size never matches a candidate whose text yields no size, 30ml matches
\* 31ml and does not match 50ml.
C25_ExtractedSizeNeedsCandidateSize ==
    (vpc = "returned" /\ UsableText /\ Declared(vargs.input_size)
        /\ Truthy(DeclaredSizeAttributes.size)) =>
        /\ ~Truthy(CandidateAttributes.size) => ~Val(vresult).size_match
        /\ vargs.found_title = Some(TITLE_SERUM_31) => Val(vresult).size_match
        /\ vargs.found_title = Some(TITLE_SERUM_50) => ~Val(vresult).size_match
        /\ vargs.found_title = Some(TITLE_SERUM_PCS) => Val(vresult).size_match


\* The first run of digits of a string (empty if it has no digit).
RECURSIVE FirstDigitRun(_)
FirstDigitRun(s) ==
    IF s = <<>> THEN <<>>
    ELSE IF Head(s) \in Digits
    THEN <<Head(s)>> \o (IF Len(s) > 1 /\ s[2] \in Digits
                         THEN FirstDigitRun(Tail(s)) ELSE <<>>)
    ELSE FirstDigitRun(Tail(s))

\* What the extractor yields for the input of the call: name, size, color.
InputAttributes ==
    extract_attributes(vargs.input_name
                       \o <<" ">> \o OrEmpty(normalize_null(vargs.input_size))
                       \o <<" ">> \o OrEmpty(normalize_null(vargs.input_color)))

\* The shade number of the input side: the one in the declared color, or
\* else the one the extractor finds in the input.
ExpectedShade ==
    IF FirstDigitRun(Val(vargs.input_color)) # <<>>
    THEN Some(FirstDigitRun(Val(vargs.input_color)))
    ELSE InputAttributes.shade_number

\* C26: with a declared color and usable text, shade numbers on both sides
\* match iff they are equal, whatever the names; failing that, names on both
\* sides match iff they match fuzzily; and a candidate with neither a shade
\* number nor a color name is a non-match.
C26_ShadeNumbersBeforeNames ==
    (vpc = "returned" /\ UsableText /\ Declared(vargs.input_color)) =>
        /\ (Truthy(ExpectedShade) /\ Truthy(CandidateAttributes.shade_number)) =>
               (Val(vresult).color_match
                    <=> Val(ExpectedShade) = Val(CandidateAttributes.shade_number))
        /\ (~(Truthy(ExpectedShade) /\ Truthy(CandidateAttributes.shade_number))
                /\ Truthy(CandidateAttributes.color)) =>
               (Val(vresult).color_match
                    <=> _fuzzy_color_match(Val(vargs.input_color),
                                           Val(CandidateAttributes.color)))
        /\ (~Truthy(CandidateAttributes.shade_number)
                /\ ~Truthy(CandidateAttributes.color)) =>
               ~Val(vresult).color_match

\* Expected #1, found shade 2: a non-match.
C26_Witness ==
    /\ vpc = "returned" /\ UsableText
    /\ vargs.input_color = Some(COLOR_SHADE_1)
    /\ CandidateAttributes.shade_number = Some(<<"2">>)
    /\ ~Val(vresult).color_match

\* Expected "On the Rose", found the name "The Rose" and no shade number: a
\* match.
C26_WitnessFuzzyNames ==
    /\ vpc = "returned" /\ UsableText
    /\ vargs.input_color = Some(COLOR_ROSE)
    /\ CandidateAttributes.shade_number = None
    /\ CandidateAttributes.color = Some(<<"T", "h", "e", " ", "R", "o", "s", "e">>)
    /\ Val(vresult).color_match

\* A declared color and a candidate with neither: a non-match.
C26_WitnessNeither ==
    /\ vpc = "returned" /\ UsableText /\ Declared(vargs.input_color)
    /\ CandidateAttributes.shade_number = None /\ CandidateAttributes.color = None
    /\ ~Val(vresult).color_match


(***************************************************************************)
(* Properties of the msrp among prices without identifier match.           *)
(***************************************************************************)
\* The positions whose prices the outlier filter of line 317 keeps: those not
\* above 3 times the middle one of the sorted prices.
ReasonablePositions ==
    {j \in OtherPositions :
        Val(a_verified[j].r.price)
            <= 3 * KthOtherPrice((Cardinality(OtherPositions) \div 2) + 1)}
ReasonablePrices == {Val(a_verified[j].r.price) : j \in ReasonablePositions}
KthReasonablePrice(k) ==
    CHOOSE p \in ReasonablePrices :
        /\ Cardinality({j \in ReasonablePositions : Val(a_verified[j].r.price) < p}) < k
        /\ Cardinality({j \in ReasonablePositions : Val(a_verified[j].r.price) <= p}) >= k

\* The place of the 75th percentile among n ascending values: the first place
\* at or after three quarters of the way from the first to the last.
PercentilePlace(n) == ((3 * (n - 1) + 3) \div 4) + 1

\* C27: when no result of the aggregated set has an identifier-matched
\* positive price, the msrp is the 75th-percentile value of the prices the
\* outlier filter keeps if there are 4 or more of them, their maximum if there
\* are fewer, and the maximum of all the prices only if the filter keeps none;
\* it is always one of the positive prices of the results.
C27_PercentileOrMaximum ==
    (apc = "returned" /\ IdentifierPrices = {} /\ OtherPositions # {}) =>
        /\ Val(a_record).msrp # None
        /\ Val(Val(a_record).msrp) \in OtherPrices
        /\ Val(Val(a_record).msrp) =
               IF Cardinality(ReasonablePositions) >= 4
               THEN KthReasonablePrice(PercentilePlace(Cardinality(ReasonablePositions)))
               ELSE IF ReasonablePositions # {}
               THEN KthReasonablePrice(Cardinality(ReasonablePositions))
               ELSE KthOtherPrice(Cardinality(OtherPositions))

\* Five prices kept: the msrp is the fourth of them, below the highest.
C27_Witness ==
    /\ apc = "returned" /\ IdentifierPrices = {}
    /\ Cardinality(ReasonablePositions) = 5
    /\ Val(a_record).msrp = Some(1500)
    /\ 1600 \in ReasonablePrices

\* Five prices of which the filter drops one: the highest of the four kept.
C27_WitnessOutlierDropped ==
    /\ apc = "returned" /\ IdentifierPrices = {}
    /\ Cardinality(OtherPositions) = 5 /\ Cardinality(ReasonablePositions) = 4
    /\ 4700 \in OtherPrices
    /\ Val(a_record).msrp = Some(1600)

\* Three prices: the highest.
C27_WitnessFewPrices ==
    /\ apc = "returned" /\ IdentifierPrices = {}
    /\ Cardinality(ReasonablePositions) = 3
    /\ ReasonablePrices = {1400, 1500, 1600}
    /\ Val(a_record).msrp = Some(1600)


(***************************************************************************)
(* Properties of the concurrency slots.                                    *)
(***************************************************************************)
\* C28: every slot taken by acquire() is given back once, however the fetch
\* ends; so a domain with no fetch in flight has all its max_concurrent slots
\* free.
C28_SlotsReturnedWhenIdle ==
    \A d \in Domains :
        (\A t \in FetchTasks : fdomain[t] # d) => sem_value[d] = max_concurrent(d)

\* Slots are given back when no fetch is cancelled while acquire() sleeps out
\* the rate interval: the slots in use are those of the tasks past the
\* semaphore.
SlotsInUse(d) ==
    Cardinality({t \in FetchTasks :
        fdomain[t] = d /\ fpc[t] \in {"rate_sleep", "holding"}})
SlotsNeverExceeded ==
    \A d \in Domains : sem_value[d] + SlotsInUse(d) <= max_concurrent(d)


RecordInOrder(p) ==
    select_record([k \in 1..Len(a_verified) |-> a_verified[p[k]]], a_input.input_upc)

Orders == Permutations(1..Len(a_verified))

\* C30 as stated: the msrp and the confidence of the record are the same for
\* every order of the results, in every tier.
C30_OrderIndependent ==
    apc = "returned" =>
        \A p \in Orders :
            /\ RecordInOrder(p).msrp = Val(a_record).msrp
            /\ RecordInOrder(p).confidence = Val(a_record).confidence

\* C30, amended: the confidence of the record is the same for every order of
\* the results, and so is the msrp when some result is an exact match; the
\* record of the failed verification has the price of the first result of the
\* highest confidence.
C30_OrderIndependentButFailureMsrp ==
    apc = "returned" =>
        \A p \in Orders :
            /\ RecordInOrder(p).confidence = Val(a_record).confidence
            /\ ExactPositions # {} => RecordInOrder(p).msrp = Val(a_record).msrp
            /\ ExactPositions = {} =>
                   \E k \in 1..Len(a_verified) :
                       /\ \A j \in 1..Len(a_verified) :
                              a_verified[j].v.confidence <= a_verified[p[k]].v.confidence
                       /\ \A j \in 1..(k - 1) :
                              a_verified[p[j]].v.confidence < a_verified[p[k]].v.confidence
                       /\ RecordInOrder(p).msrp = a_verified[p[k]].r.price

\* Two exact matches of different prices with a result that is none between
\* them: the msrp is that of the aggregation in every order.
C30_Witness ==
    /\ apc = "returned" /\ Len(a_verified) = 3
    /\ ExactPositions = {1, 3}
    /\ a_verified[1].r.price = Some(1400) /\ a_verified[3].r.price = Some(1600)
    /\ a_verified[2].v.confidence = 40
    /\ Val(a_record).msrp = Some(1600)

\* Two results of the same highest confidence and of different prices, none of
\* them exact: the record has the price of the first.
C30_WitnessFailureRecord ==
    /\ apc = "returned" /\ Len(a_verified) = 3
    /\ ExactPositions = {}
    /\ a_verified[1].v.confidence = 20
    /\ a_verified[2].v.confidence = 40 /\ a_verified[3].v.confidence = 40
    /\ a_verified[2].r.price = Some(0) /\ a_verified[3].r.price = Some(1600)
    /\ Val(a_record).msrp = Some(0)
    /\ Val(a_record).confidence = 40

=============================================================================
